---- MODULE Spec2Model ----
(***************************************************************************)
(* Ask360: the question-answering core (src/ask360/ask360_core.py).        *)
(*                                                                         *)
(* Questions are strings; the regular expressions of the router and of the *)
(* metadata extractor are matched character by character by the operators  *)
(* below.  Money is held in whole dollars (the noise term is a whole       *)
(* number of percent, see Normal), rates in 1/10000.                       *)
(***************************************************************************)
EXTENDS Integers, Sequences, FiniteSets, TLC

VARIABLES
    zTable,     \* the standard-normal stream of the seeded generator (tenths of sigma)
    hashSeed,   \* the per-process salt of Python's string hash
    rng,        \* numpy's global random state: [seeded, pos]
    chartFile,  \* the series plotted in trend.png, <<>> while the file is absent
    pc,         \* position of the caller: "idle", "asked", "answered"
    question,   \* the question handed to answer()
    result,     \* the object answer() returned (NoResult before it returns)
    memo,       \* an earlier answer the caller kept: [q, table, kpis], or NoMemo
    out,        \* what a generator or handler called on its own returned: [op, value]
    calls,      \* the answer() calls running in threads of one process, and their schedule
    cli,        \* the terminal front end: its mode, its position and what it printed
    ui          \* the browser front end: st.session_state of one session

vars == <<zTable, hashSeed, rng, chartFile, pc, question, result, memo, out, calls, cli, ui>>

\* Python's None (no string of the model equals it)
None == "<None>"

(***************************************************************************)
(* Strings and characters                                                  *)
(***************************************************************************)
CharAt(s, i) == SubSeq(s, i, i)

LowerCase == "abcdefghijklmnopqrstuvwxyz"
UpperCase == "ABCDEFGHIJKLMNOPQRSTUVWXYZ"
Digits == "0123456789"

RECURSIVE IndexIn(_, _, _)
\* position of character c in string t at or after i, 0 when absent
IndexIn(c, t, i) ==
    IF i > Len(t) THEN 0
    ELSE IF CharAt(t, i) = c THEN i
    ELSE IndexIn(c, t, i + 1)

Chars(t) == {CharAt(t, i) : i \in 1..Len(t)}

\* the lower-case and the upper-case letter of each letter
LowerOf == [c \in Chars(UpperCase) |-> CharAt(LowerCase, IndexIn(c, UpperCase, 1))]
UpperOf == [c \in Chars(LowerCase) |-> CharAt(UpperCase, IndexIn(c, LowerCase, 1))]

LowerChar(c) == IF c \in DOMAIN LowerOf THEN LowerOf[c] ELSE c

UpperChar(c) == IF c \in DOMAIN UpperOf THEN UpperOf[c] ELSE c

RECURSIVE MapChars(_, _, _)
MapChars(s, i, up) ==
    IF i > Len(s) THEN ""
    ELSE (IF up THEN UpperChar(CharAt(s, i)) ELSE LowerChar(CharAt(s, i)))
         \o MapChars(s, i + 1, up)

\* str.lower() and str.upper()
Lower(s) == MapChars(s, 1, FALSE)
Upper(s) == MapChars(s, 1, TRUE)

\* \w of the re module: letters, digits and the underscore
WordChars == Chars(LowerCase) \cup Chars(UpperCase) \cup Chars(Digits) \cup {"_"}

IsWordChar(c) == c \in WordChars

\* \s of the re module
IsSpace(c) == c \in {" ", "\t", "\n"}

(***************************************************************************)
(* Regular expressions.  Ends(re, s, i) is the set of positions j such     *)
(* that re matches s[i+1..j]; re.search succeeds when some start has an    *)
(* end.                                                                    *)
(***************************************************************************)
Lit(str) == [t |-> "lit", s |-> str]
Cat(rs) == [t |-> "cat", rs |-> rs]
Alt(rs) == [t |-> "alt", rs |-> rs]
Opt(r) == [t |-> "opt", rs |-> <<r>>]
Ws == [t |-> "ws"]            \* \s+
AnyChars == [t |-> "any"]     \* .*
Wb == [t |-> "wb"]            \* \b
NoWordAhead == [t |-> "nwa"]  \* (?!\w)

WordAt(s, i) == i >= 1 /\ i <= Len(s) /\ IsWordChar(CharAt(s, i))

RECURSIVE Ends(_, _, _)
Ends(re, s, i) ==
    CASE re.t = "lit" ->
            IF i + Len(re.s) <= Len(s) /\ SubSeq(s, i + 1, i + Len(re.s)) = re.s
            THEN {i + Len(re.s)} ELSE {}
      [] re.t = "ws" ->
            {j \in (i + 1)..Len(s) : \A k \in (i + 1)..j : IsSpace(CharAt(s, k))}
      [] re.t = "any" ->
            {j \in i..Len(s) : \A k \in (i + 1)..j : CharAt(s, k) # "\n"}
      [] re.t = "wb" ->
            IF WordAt(s, i) # WordAt(s, i + 1) THEN {i} ELSE {}
      [] re.t = "nwa" ->
            IF WordAt(s, i + 1) THEN {} ELSE {i}
      [] re.t = "opt" -> {i} \cup Ends(re.rs[1], s, i)
      [] re.t = "alt" -> UNION {Ends(re.rs[k], s, i) : k \in 1..Len(re.rs)}
      [] re.t = "cat" ->
            IF Len(re.rs) = 0 THEN {i}
            ELSE UNION {Ends(Cat(Tail(re.rs)), s, j) : j \in Ends(Head(re.rs), s, i)}

\* re.search(pattern, s) is not None
Search(re, s) == \E i \in 0..Len(s) : Ends(re, s, i) # {}

RECURSIVE Spaced(_)
\* the words of ws joined by \s+
Spaced(ws) ==
    IF Len(ws) = 1 THEN <<Lit(ws[1])>>
    ELSE <<Lit(ws[1]), Ws>> \o Spaced(Tail(ws))

Words(ws) == Cat(Spaced(ws))

(***************************************************************************)
(* Intent routing                                                          *)
(***************************************************************************)
Intents == <<"trend", "growth_markets", "segment_repeat", "occasions", "channel_pack">>

\* r'trend|last\s+12\s+months|monthly|how\s+is\s+yogurt\s+doing'
TrendPattern ==
    Alt(<<Lit("trend"), Words(<<"last", "12", "months">>), Lit("monthly"),
          Words(<<"how", "is", "yogurt", "doing">>)>>)

\* r'top\s+3.*growth|which.*growth\s+markets|fastest\s+growing'
GrowthPattern ==
    Alt(<<Cat(<<Words(<<"top", "3">>), AnyChars, Lit("growth")>>),
          Cat(<<Lit("which"), AnyChars, Words(<<"growth", "markets">>)>>),
          Words(<<"fastest", "growing">>)>>)

\* r'repeat\s+rate|trial\s+vs\s+repeat|18-34|35-54'
SegmentPattern ==
    Alt(<<Words(<<"repeat", "rate">>), Words(<<"trial", "vs", "repeat">>),
          Lit("18-34"), Lit("35-54")>>)

\* r'occasion|consumption\s+occasions|when\s+do\s+people\s+consume'
OccasionsPattern ==
    Alt(<<Lit("occasion"), Words(<<"consumption", "occasions">>),
          Words(<<"when", "do", "people", "consume">>)>>)

\* r'(e-?commerce|retail).*(single|multi|multipack)|channel\s+grew\s+faster'
ChannelPackPattern ==
    Alt(<<Cat(<<Alt(<<Cat(<<Lit("e"), Opt(Lit("-")), Lit("commerce")>>), Lit("retail")>>),
                AnyChars,
                Alt(<<Lit("single"), Lit("multi"), Lit("multipack")>>)>>),
          Words(<<"channel", "grew", "faster">>)>>)

RoutePatterns ==
    <<TrendPattern, GrowthPattern, SegmentPattern, OccasionsPattern, ChannelPackPattern>>

RouteIntentNoLower(q) ==
    IF Search(TrendPattern, q) THEN "trend"
    ELSE IF Search(GrowthPattern, q) THEN "growth_markets"
    ELSE IF Search(SegmentPattern, q) THEN "segment_repeat"
    ELSE IF Search(OccasionsPattern, q) THEN "occasions"
    ELSE IF Search(ChannelPackPattern, q) THEN "channel_pack"
    ELSE "trend"

RouteIntentNoDefault(q) ==
    LET q_lower == Lower(q)
    IN  IF \E k \in 1..Len(RoutePatterns) : Search(RoutePatterns[k], q_lower)
        THEN RouteIntentNoLower(q_lower) ELSE None

RouteIntentSegmentFirst(q) ==
    LET q_lower == Lower(q)
    IN  IF Search(SegmentPattern, q_lower) THEN "segment_repeat"
        ELSE RouteIntentNoLower(q_lower)

RouteIntent(q) ==
    LET q_lower == Lower(q)
    IN  IF Search(TrendPattern, q_lower) THEN "trend"
        ELSE IF Search(GrowthPattern, q_lower) THEN "growth_markets"
        ELSE IF Search(SegmentPattern, q_lower) THEN "segment_repeat"
        ELSE IF Search(OccasionsPattern, q_lower) THEN "occasions"
        ELSE IF Search(ChannelPackPattern, q_lower) THEN "channel_pack"
        ELSE "trend"

(***************************************************************************)
(* The shared random source (numpy's global state) and Python's hash       *)
(***************************************************************************)
StreamPeriod == 7
Seed == 42

\* standard-normal draws, in tenths of sigma
ZVals == {-150, -10, 10, 500}

\* the draws far in the tails: noise below -1, and far above it
TailZVals == {-150, 500}

\* a stream of period StreamPeriod: the draw v at position k of each period,
\* the draw base elsewhere
Stream(base, k, v) == [i \in 1..StreamPeriod |-> IF i = k THEN v ELSE base]

\* the streams the seeded generator may produce
Streams ==
    UNION {{Stream(base, k, v) : k \in 1..StreamPeriod, v \in TailZVals \cup {base}} :
              base \in ZVals}

\* the stream of the runs that vary the question, and those of the runs
\* that repeat questions
SampleStreams == {Stream(-10, 1, 10)}
RepeatStreams == {Stream(-10, 1, v) : v \in {-150, 10}}

\* the state of the random source before any seed is set
UnseededRng == [seed |-> 1, pos |-> 0]

\* np.random.seed(42)
SeedRng == [seed |-> Seed, pos |-> 0]

\* a random source that seeding leaves in the state it is given
KeepRng(r) == r

Reseed(r) == SeedRng

\* the draw np.random.normal(0, 1) makes in state r, in tenths of sigma (the
\* stream zTable repeats after its length)
NextZ(r) == zTable[((r.seed + r.pos) % Len(zTable)) + 1]

Advance(r, n) == [r EXCEPT !.pos = r.pos + n]

HashSeeds == {0, 1}

\* hash(f"{market}{age}") under the salt of this process; negative for some keys
PyHash(mi, ai) == (((hashSeed + 1) * (7919 * mi + 104729 * ai)) % 1000003) - 500000

\* the function f with its values computed once (TLC applies a function
\* expression lazily, point by point, until it is compared)
Eager(f) == IF f = <<>> THEN f ELSE f

(***************************************************************************)
(* Synthetic data                                                          *)
(***************************************************************************)
NumMonths == 24
Markets == <<"US", "UK", "DE", "IN", "BR">>
Channels == <<"retail", "ecommerce">>
Packs == <<"single", "multipack">>
AgeBuckets == <<"18-34", "35-54", "55+">>

\* pd.date_range('2023-01-01', '2024-12-31', freq='MS')[d]
MonthStart(d) == [year |-> 2023 + (d - 1) \div 12, month |-> ((d - 1) % 12) + 1]

Max(a, b) == IF a >= b THEN a ELSE b
Min(a, b) == IF a <= b THEN a ELSE b

\* base * multiplier * channel_mult * pack_mult * (1 + normal(0, 0.1)), in dollars:
\* the multipliers are held in tenths and the noise in percent, and the
\* product of the three multipliers is even, so the value is a whole number
SalesUnclamped(date, market, channel, pack, z) ==
    LET base == IF market = "US" THEN 100000 ELSE 50000
        multiplier == IF date.year = 2024 THEN 10 ELSE 8
        channel_mult == IF channel = "ecommerce" THEN 12 ELSE 10
        pack_mult == IF pack = "multipack" THEN 11 ELSE 10
    IN  ((base \div 1000) * multiplier * channel_mult * pack_mult * (100 + z)) \div 100

FactRowNoClamp(date, market, channel, pack, z) ==
    LET sales_usd == SalesUnclamped(date, market, channel, pack, z)
    IN  [date |-> date, market |-> market, channel |-> channel, product |-> "yogurt",
         pack |-> pack, sales_usd |-> sales_usd, units7 |-> 2 * sales_usd]

\* one row of the table; units = sales_usd / 3.5 is held in sevenths (units7)
FactRow(date, market, channel, pack, z) ==
    LET sales_usd == SalesUnclamped(date, market, channel, pack, z)
        units7 == 2 * sales_usd
    IN  [date |-> date, market |-> market, channel |-> channel, product |-> "yogurt",
         pack |-> pack, sales_usd |-> Max(0, sales_usd), units7 |-> Max(0, units7)]

NumFactRows == NumMonths * Len(Markets) * Len(Channels) * Len(Packs)

\* the row appended by the i-th iteration of the four nested loops when its
\* draw is z
FactOf(i, z) ==
    LET k == i - 1
        pack == Packs[(k % 2) + 1]
        channel == Channels[((k \div 2) % 2) + 1]
        market == Markets[((k \div 4) % 5) + 1]
        date == MonthStart((k \div 20) + 1)
    IN  FactRow(date, market, channel, pack, z)

\* the row appended by the i-th iteration, which makes the i-th draw after
\* the reseed
FactAt(r, i) == FactOf(i, NextZ(Advance(r, i - 1)))

\* _generate_facts(): the rows and the state it leaves the random source in
GenerateFacts(r0) ==
    LET r == Reseed(r0)
    IN  [rows |-> Eager([i \in 1..NumFactRows |-> FactAt(r, i)]),
         rng |-> Advance(r, NumFactRows)]

SegmentRowNoCap(market, age, h, z1, z2) ==
    [year |-> 2024, market |-> market, age_bucket |-> age,
     trial_rate |-> 1500 + 100 * (h % 20) + 20 * z1,
     repeat_rate |-> 3500 + 100 * (h % 30) + 30 * z2]

\* rates in 1/10000: 0.15 + hash % 20 / 100 + normal(0, 0.02), capped at 1.0
SegmentRow(market, age, h, z1, z2) ==
    LET base_trial == 1500 + 100 * (h % 20)
        base_repeat == 3500 + 100 * (h % 30)
    IN  [year |-> 2024, market |-> market, age_bucket |-> age,
         trial_rate |-> Min(10000, base_trial + 20 * z1),
         repeat_rate |-> Min(10000, base_repeat + 30 * z2)]

NumSegmentRows == Len(Markets) * Len(AgeBuckets)

\* the row appended by the i-th iteration of the two nested loops when its
\* draws are z1 and z2
SegmentOf(i, z1, z2) ==
    LET k == i - 1
        ai == (k % 3) + 1
        mi == (k \div 3) + 1
    IN  SegmentRow(Markets[mi], AgeBuckets[ai], PyHash(mi, ai), z1, z2)

SegmentAt(r, i) ==
    SegmentOf(i, NextZ(Advance(r, 2 * (i - 1))), NextZ(Advance(r, 2 * (i - 1) + 1)))

\* _generate_segments()
GenerateSegments(r0) ==
    LET r == Reseed(r0)
    IN  [rows |-> Eager([i \in 1..NumSegmentRows |-> SegmentAt(r, i)]),
         rng |-> Advance(r, 2 * NumSegmentRows)]

\* _get_occasions(): shares in percent
GetOccasions ==
    <<[name |-> "breakfast", share |-> 45], [name |-> "post-workout", share |-> 18],
      [name |-> "snack", share |-> 27], [name |-> "late-night", share |-> 10]>>

(***************************************************************************)
(* Arithmetic of the handlers: totals, ratios, ordering and formatting.    *)
(* A float is held as an exact fraction [num, den]; den = 0 is inf         *)
(* (num > 0) or nan (num = 0), as numpy's division gives.                  *)
(***************************************************************************)
RECURSIVE SumRange(_, _, _)
\* s[lo] + ... + s[hi]
SumRange(s, lo, hi) ==
    IF lo > hi THEN 0
    ELSE IF lo = hi THEN s[lo]
    ELSE LET mid == (lo + hi) \div 2
         IN  SumRange(s, lo, mid) + SumRange(s, mid + 1, hi)

SumSeq(s) == SumRange(s, 1, Len(s))

\* rows[keep]['sales_usd'].sum(), keep the set of the indices of the rows kept
Total(rows, keep) ==
    SumSeq([i \in 1..Len(rows) |-> IF i \in keep THEN rows[i].sales_usd ELSE 0])

Frac(n, d) == [num |-> n, den |-> d]
IsNaN(v) == v.den = 0 /\ v.num = 0
IsInf(v) == v.den = 0 /\ v.num > 0

RECURSIVE FracLess(_, _, _, _)
\* a/b < c/d for a, c >= 0 and b, d > 0, by continued fractions (no product
\* of two totals is formed)
FracLess(a, b, c, d) ==
    LET qa == a \div b
        qc == c \div d
        ra == a % b
        rc == c % d
    IN  IF qa # qc THEN qa < qc
        ELSE IF rc = 0 THEN FALSE
        ELSE IF ra = 0 THEN TRUE
        ELSE FracLess(d, rc, b, ra)

YoYZeroGuarded(t2023, t2024) ==
    IF t2023 = 0 THEN Frac(0, 1) ELSE Frac(t2024 - t2023, t2023)

\* (b - a) / a * 100 as a fraction of the two totals, before the * 100; the
\* division of two float64 columns raises nothing when the divisor is 0
YoY(t2023, t2024) == Frac(t2024 - t2023, t2023)

YoYSmaller(v, w) ==
    /\ ~IsNaN(v)
    /\ \/ IsNaN(w)
       \/ IsInf(w) /\ ~IsInf(v)
       \/ ~IsInf(v) /\ ~IsInf(w) /\ FracLess(v.num + v.den, v.den, w.num + w.den, w.den)

\* v > w for two YoY values, nan compared as the smallest value (sort_values
\* places nan last); num + den is the 2024 total, never negative
YoYGreater(v, w) ==
    /\ ~IsNaN(v)
    /\ \/ IsNaN(w)
       \/ IsInf(v) /\ ~IsInf(w)
       \/ ~IsInf(v) /\ ~IsInf(w) /\ FracLess(w.num + w.den, w.den, v.num + v.den, v.den)

\* the place of item i of n after sort_values(ascending=False): larger
\* items first, equal items in their original order; gt[<<i, j>>] tells
\* whether item i is larger than item j
RankDesc(n, gt, i) ==
    1 + Cardinality({j \in 1..n : gt[<<j, i>>] \/ (~gt[<<i, j>>] /\ j < i)})

\* the permutation sort_values(ascending=False) applies to n items
SortDesc(n, gt) ==
    LET rank == Eager([i \in 1..n |-> RankDesc(n, gt, i)])
    IN  Eager([p \in 1..n |-> CHOOSE i \in 1..n : rank[i] = p])

\* gt of SortDesc for n items with the YoY values yoy
YoYOrder(n, yoy) == Eager([p \in (1..n) \X (1..n) |-> YoYGreater(yoy[p[1]], yoy[p[2]])])

\* gt of SortDesc for n items with the numbers x
NumberOrder(n, x) == Eager([p \in (1..n) \X (1..n) |-> x[p[1]] > x[p[2]]])

RECURSIVE LongDiv(_, _, _, _)
\* k more decimal digits of a quotient q with remainder r
LongDiv(q, r, den, k) ==
    IF k = 0 THEN [q |-> q, r |-> r]
    ELSE LongDiv(q * 10 + (r * 10) \div den, (r * 10) % den, den, k - 1)

\* num / den * 10^k rounded to the nearest integer, ties to even
RoundScaled(num, den, k) ==
    LET a == IF num < 0 THEN -num ELSE num
        d == LongDiv(a \div den, a % den, den, k)
        up == 2 * d.r > den \/ (2 * d.r = den /\ d.q % 2 = 1)
        m == IF up THEN d.q + 1 ELSE d.q
    IN  IF num < 0 THEN -m ELSE m

\* what a format prints: a sign ("-", or plus, which is "+" for the format
\* :+ and empty otherwise) and a number of tenths (or hundredths), or nan or
\* inf; a negative value that rounds to zero keeps its sign
Num(num, den, k, plus) ==
    [kind |-> "num", n |-> RoundScaled(IF num < 0 THEN -num ELSE num, den, k),
     sign |-> IF num < 0 THEN "-" ELSE plus]
NaN(plus) == [kind |-> "nan", n |-> 0, sign |-> plus]
Inf(plus) == [kind |-> "inf", n |-> 0, sign |-> plus]

FmtPct(v, plus) ==
    IF IsNaN(v) THEN NaN(plus)
    ELSE IF IsInf(v) THEN Inf(plus)
    ELSE Num(v.num, v.den, 3, plus)

\* f'{v * 100:.1f}' for a fraction v: tenths of a percent
FmtPct1(v) == FmtPct(v, "")

\* f'{v * 100:+.1f}'
FmtPctSigned1(v) == FmtPct(v, "+")

\* f'{x / 1e6:.2f}': hundredths of a million dollars
FmtMillions2(x) == Num(x, 1000000, 2, "")

\* f'{s / 5:.1%}' for the sum s of five rates in 1/10000: tenths of a percent
FmtRate1(s) == Num(s, 50, 0, "")

(***************************************************************************)
(* Handlers.  Each returns [result, rng, chart]: the answer fields it      *)
(* builds, the state it leaves the random source in and the chart file.    *)
(* A line of text is the tuple of its literal parts and formatted values.  *)
(***************************************************************************)
NoChart == <<>>

\* the keys of groupby(...), which sorts them
MarketKeys == <<"BR", "DE", "IN", "UK", "US">>
ChannelPackKeys ==
    <<<<"ecommerce", "multipack">>, <<"ecommerce", "single">>,
      <<"retail", "multipack">>, <<"retail", "single">>>>
AgeKeys == <<"18-34", "35-54", "55+">>

\* _handle_trend() once the generator has returned facts = [rows, rng]
TrendFrom(facts, chart) ==
    LET MonthTotal(m) ==
            Total(facts.rows, {i \in DOMAIN facts.rows :
                                  /\ facts.rows[i].date.year = 2024
                                  /\ facts.rows[i].date.month = m})
        monthly == Eager([m \in 1..12 |->
                            [date |-> [year |-> 2024, month |-> m],
                             sales_usd |-> MonthTotal(m)]])
        start_val == monthly[1].sales_usd
        end_val == monthly[12].sales_usd
        pct_change == FmtPctSigned1(Frac(end_val - start_val, start_val))
    IN  [result |->
           [intent |-> "trend",
            kpis |-> <<[label |-> "Start (Jan 2024)", value |-> <<"$", FmtMillions2(start_val), "M">>],
                       [label |-> "End (Dec 2024)", value |-> <<"$", FmtMillions2(end_val), "M">>],
                       [label |-> "Change", value |-> <<pct_change, "%">>]>>,
            text |-> <<<<"Yogurt sales in 2024 started at $", FmtMillions2(start_val), "M in January.">>,
                       <<"By December, sales reached $", FmtMillions2(end_val), "M.">>,
                       <<"This represents a ", pct_change, "% change over the year.">>>>,
            table |-> [m \in 1..12 |-> monthly[m]],
            chart_path |-> "trend.png"],
         rng |-> facts.rng,
         chart |-> [m \in 1..12 |-> monthly[m].sales_usd]]

\* _handle_trend()
HandleTrend(r0, chart) == TrendFrom(GenerateFacts(r0), chart)

HeadAll(sorted) == sorted

\* yoy.head(3)
Head3(sorted) == SubSeq(sorted, 1, Min(3, Len(sorted)))


\* _handle_growth_markets() once the generator has returned facts = [rows, rng]
GrowthMarketsFrom(facts, chart) ==
    LET Sales(y, k) ==
            Total(facts.rows, {i \in DOMAIN facts.rows :
                                  /\ facts.rows[i].date.year = y
                                  /\ facts.rows[i].market = MarketKeys[k]})
        yoy == Eager([k \in 1..Len(MarketKeys) |-> YoY(Sales(2023, k), Sales(2024, k))])
        top3 == Head3(SortDesc(Len(MarketKeys), YoYOrder(Len(MarketKeys), yoy)))
        Kpi(label, i) ==
            [label |-> label, value |-> <<MarketKeys[top3[i]], " (", FmtPct1(yoy[top3[i]]), "%)">>]
        Line(n, i) ==
            <<n, ". ", MarketKeys[top3[i]], " with ", FmtPctSigned1(yoy[top3[i]]), "% YoY growth">>
    IN  [result |->
           [intent |-> "growth_markets",
            kpis |-> <<Kpi("Top Market", 1), Kpi("2nd Market", 2), Kpi("3rd Market", 3)>>,
            text |-> <<<<"The top 3 growth markets for yogurt are:">>,
                       Line(1, 1), Line(2, 2), Line(3, 3)>>,
            table |-> [i \in 1..Len(top3) |->
                         [market |-> MarketKeys[top3[i]],
                          yoy_growth_pct |-> <<FmtPct1(yoy[top3[i]]), "%">>]]],
         rng |-> facts.rng,
         chart |-> chart]

\* _handle_growth_markets()
HandleGrowthMarkets(r0, chart) == GrowthMarketsFrom(GenerateFacts(r0), chart)

\* _handle_segment_repeat() once the generator has returned segments = [rows, rng]
SegmentRepeatFrom(segments, chart) ==
    LET \* five times groupby('age_bucket')['repeat_rate'].mean()
        sum == Eager([k \in 1..Len(AgeKeys) |->
                        SumSeq([i \in 1..Len(segments.rows) |->
                                  IF segments.rows[i].age_bucket = AgeKeys[k]
                                  THEN segments.rows[i].repeat_rate ELSE 0])])
        avg_repeat == SortDesc(Len(AgeKeys), NumberOrder(Len(AgeKeys), sum))
        highest == AgeKeys[avg_repeat[1]]
        highest_val == FmtRate1(sum[avg_repeat[1]])
        Line(i) == <<"- ", AgeKeys[avg_repeat[i]], ": ", FmtRate1(sum[avg_repeat[i]]), "%">>
    IN  [result |->
           [intent |-> "segment_repeat",
            kpis |-> <<[label |-> "Highest Repeat Rate",
                        value |-> <<highest, " (", highest_val, "%)">>]>>,
            text |-> <<<<"Average repeat rates by age segment:">>,
                       Line(1), Line(2), Line(3),
                       <<"The ", highest, " segment has the highest repeat rate at ",
                         highest_val, "%.">>>>,
            table |-> [i \in 1..Len(AgeKeys) |->
                         [age_bucket |-> AgeKeys[avg_repeat[i]],
                          avg_repeat_rate |-> <<FmtRate1(sum[avg_repeat[i]]), "%">>]]],
         rng |-> segments.rng,
         chart |-> chart]

\* _handle_segment_repeat()
HandleSegmentRepeat(r0, chart) == SegmentRepeatFrom(GenerateSegments(r0), chart)

\* _handle_occasions()
HandleOccasions(r0, chart) ==
    LET occasions == GetOccasions
        order == SortDesc(Len(occasions),
                          NumberOrder(Len(occasions),
                                      [i \in DOMAIN occasions |-> occasions[i].share]))
        sorted_occasions == [i \in 1..Len(occasions) |-> occasions[order[i]]]
        Share(i) == Num(sorted_occasions[i].share, 100, 3, "")
        Line(i) == <<i, ". ", sorted_occasions[i].name, ": ", Share(i), "%">>
    IN  [result |->
           [intent |-> "occasions",
            kpis |-> <<[label |-> "Top Occasion",
                        value |-> <<sorted_occasions[1].name, " (", Share(1), "%)">>]>>,
            text |-> <<<<"Top consumption occasions for shelf-stable yogurt:">>,
                       Line(1), Line(2), Line(3), Line(4)>>,
            table |-> [i \in 1..Len(occasions) |->
                         [occasion |-> sorted_occasions[i].name,
                          share |-> <<Share(i), "%">>]]],
         rng |-> r0,
         chart |-> chart]

\* _handle_channel_pack() once the generator has returned facts = [rows, rng]
ChannelPackFrom(facts, chart) ==
    LET Sales(y, k) ==
            Total(facts.rows, {i \in DOMAIN facts.rows :
                                  /\ facts.rows[i].date.year = y
                                  /\ facts.rows[i].channel = ChannelPackKeys[k][1]
                                  /\ facts.rows[i].pack = ChannelPackKeys[k][2]})
        val == Eager([k \in 1..Len(ChannelPackKeys) |->
                       YoY(Sales(2023, k), Sales(2024, k))])
        yoy == SortDesc(Len(ChannelPackKeys), YoYOrder(Len(ChannelPackKeys), val))
        fastest == ChannelPackKeys[yoy[1]]
        fastest_val == FmtPct1(val[yoy[1]])
        Line(i) == <<"- ", ChannelPackKeys[yoy[i]][1], " ", ChannelPackKeys[yoy[i]][2], ": ",
                     FmtPctSigned1(val[yoy[i]]), "%">>
    IN  [result |->
           [intent |-> "channel_pack",
            kpis |-> <<[label |-> "Fastest Growing",
                        value |-> <<fastest[1], "-", fastest[2], " (", fastest_val, "%)">>]>>,
            text |-> <<<<"YoY growth by channel and pack:">>,
                       Line(1), Line(2), Line(3), Line(4),
                       <<"The fastest growing combination is ", fastest[1], " ", fastest[2],
                         " with ", FmtPctSigned1(val[yoy[1]]), "% growth.">>>>,
            table |-> [i \in 1..Len(ChannelPackKeys) |->
                         [channel |-> ChannelPackKeys[yoy[i]][1],
                          pack |-> ChannelPackKeys[yoy[i]][2],
                          yoy_growth_pct |-> <<FmtPct1(val[yoy[i]]), "%">>]]],
         rng |-> facts.rng,
         chart |-> chart]

\* _handle_channel_pack()
HandleChannelPack(r0, chart) == ChannelPackFrom(GenerateFacts(r0), chart)

(***************************************************************************)
(* Metadata extraction                                                     *)
(***************************************************************************)
AllMarkets == "All markets (US, UK, DE, IN, BR)"

\* r'last\s+12\s+months|12\s+months'
Last12Pattern == Alt(<<Words(<<"last", "12", "months">>), Words(<<"12", "months">>)>>)
\* r'2024|twenty\s+twenty\s+four'
Y2024Pattern == Alt(<<Lit("2024"), Words(<<"twenty", "twenty", "four">>)>>)
\* r'2023|twenty\s+twenty\s+three'
Y2023Pattern == Alt(<<Lit("2023"), Words(<<"twenty", "twenty", "three">>)>>)
\* r'last\s+year|yoy|year\s+over\s+year'
YoYPattern ==
    Alt(<<Words(<<"last", "year">>), Lit("yoy"), Words(<<"year", "over", "year">>)>>)
\* r'year\s+to\s+date|ytd'
YtdPattern == Alt(<<Words(<<"year", "to", "date">>), Lit("ytd")>>)

DetectTimeRange2023First(q_lower) ==
    IF Search(Last12Pattern, q_lower) THEN "Last 12 months"
    ELSE IF Search(Y2023Pattern, q_lower) THEN "2023"
    ELSE IF Search(Y2024Pattern, q_lower) THEN "2024"
    ELSE IF Search(YoYPattern, q_lower) THEN "2023-2024 (YoY)"
    ELSE IF Search(YtdPattern, q_lower) THEN "Year to date"
    ELSE None

\* the time range detected in the question, None when no pattern matches
DetectTimeRange(q_lower) ==
    IF Search(Last12Pattern, q_lower) THEN "Last 12 months"
    ELSE IF Search(Y2024Pattern, q_lower) THEN "2024"
    ELSE IF Search(Y2023Pattern, q_lower) THEN "2023"
    ELSE IF Search(YoYPattern, q_lower) THEN "2023-2024 (YoY)"
    ELSE IF Search(YtdPattern, q_lower) THEN "Year to date"
    ELSE None

DefaultTimeRange(intent) ==
    IF intent = "trend" THEN "2024"
    ELSE IF intent \in {"growth_markets", "channel_pack"} THEN "2023-2024 (YoY)"
    ELSE IF intent = "segment_repeat" THEN "2024"
    ELSE IF intent = "occasions" THEN "Current"
    ELSE None

\* r'\b(<name>|<code>\b)(?!\w)'
MarketPattern(names) == Cat(<<Wb, Alt(names), NoWordAhead>>)

market_patterns ==
    <<[pattern |-> MarketPattern(<<Words(<<"united", "states">>), Cat(<<Lit("us"), Wb>>)>>),
       market_code |-> "US"],
      [pattern |-> MarketPattern(<<Words(<<"united", "kingdom">>), Cat(<<Lit("uk"), Wb>>)>>),
       market_code |-> "UK"],
      [pattern |-> MarketPattern(<<Lit("germany"), Cat(<<Lit("de"), Wb>>)>>),
       market_code |-> "DE"],
      [pattern |-> MarketPattern(<<Lit("india"), Words(<<"in", "market">>),
                                   Words(<<"in", "region">>), Words(<<"india", "market">>)>>),
       market_code |-> "IN"],
      [pattern |-> MarketPattern(<<Lit("brazil"), Cat(<<Lit("br"), Wb>>)>>),
       market_code |-> "BR"]>>

InSeq(x, seq) == \E i \in 1..Len(seq) : seq[i] = x

RECURSIVE DetectMarketsFrom(_, _, _)
\* the loop over market_patterns from entry k on, detected so far given
DetectMarketsFrom(q_lower, k, detected) ==
    IF k > Len(market_patterns) THEN detected
    ELSE DetectMarketsFrom(q_lower, k + 1,
            IF /\ Search(market_patterns[k].pattern, q_lower)
               /\ ~InSeq(market_patterns[k].market_code, detected)
            THEN Append(detected, market_patterns[k].market_code)
            ELSE detected)

RECURSIVE DetectMarketsReversed(_, _, _)
DetectMarketsReversed(q_lower, k, detected) ==
    IF k > Len(market_patterns) THEN detected
    ELSE DetectMarketsReversed(q_lower, k + 1,
            IF Search(market_patterns[k].pattern, q_lower)
            THEN <<market_patterns[k].market_code>> \o detected
            ELSE detected)

DetectMarketsLast(q_lower) == DetectMarketsReversed(q_lower, 1, <<>>)

DetectMarkets(q_lower) == DetectMarketsFrom(q_lower, 1, <<>>)

RegionsNoSentinel(intent, detected_markets) == detected_markets

Regions(intent, detected_markets) ==
    IF detected_markets = <<>>
    THEN IF intent \in {"trend", "growth_markets", "channel_pack"} THEN <<AllMarkets>>
         ELSE IF intent = "segment_repeat" THEN <<AllMarkets>>
         ELSE <<"Global">>
    ELSE detected_markets

filter_patterns ==
    <<[pattern |-> Alt(<<Cat(<<Lit("e"), Opt(Lit("-")), Lit("commerce")>>), Lit("ecommerce")>>),
       label |-> "Channel: E-commerce"],
      [pattern |-> Lit("retail"), label |-> "Channel: Retail"],
      [pattern |-> Alt(<<Lit("multipack"), Words(<<"multi", "pack">>)>>),
       label |-> "Pack: Multipack"],
      [pattern |-> Alt(<<Words(<<"single", "pack">>), Lit("single")>>),
       label |-> "Pack: Single"],
      [pattern |-> Alt(<<Lit("18-34"), Words(<<"18", "to", "34">>)>>), label |-> "Age: 18-34"],
      [pattern |-> Alt(<<Lit("35-54"), Words(<<"35", "to", "54">>)>>), label |-> "Age: 35-54"],
      [pattern |-> Alt(<<Lit("55+"), Words(<<"55", "plus">>)>>), label |-> "Age: 55+"]>>

RECURSIVE DetectFiltersFrom(_, _, _)
DetectFiltersFrom(q_lower, k, filters) ==
    IF k > Len(filter_patterns) THEN filters
    ELSE DetectFiltersFrom(q_lower, k + 1,
            IF Search(filter_patterns[k].pattern, q_lower)
            THEN Append(filters, filter_patterns[k].label)
            ELSE filters)

\* sub in s
Contains(s, sub) ==
    \E i \in 0..(Len(s) - Len(sub)) : SubSeq(s, i + 1, i + Len(sub)) = sub

AnyContains(seq, sub) == \E i \in 1..Len(seq) : Contains(seq[i], sub)

ChannelPackFiltersBoth(intent, filters) ==
    IF intent = "channel_pack" /\ ~AnyContains(filters, "Channel") /\ ~AnyContains(filters, "Pack")
    THEN filters \o <<"Channel: All (E-commerce, Retail)", "Pack: All (Single, Multipack)">>
    ELSE filters

\* the sentinel filters of the channel_pack intent
ChannelPackFilters(intent, filters) ==
    LET f1 == IF intent = "channel_pack" /\ ~AnyContains(filters, "Channel")
              THEN Append(filters, "Channel: All (E-commerce, Retail)") ELSE filters
    IN  IF intent = "channel_pack" /\ ~AnyContains(f1, "Pack")
        THEN Append(f1, "Pack: All (Single, Multipack)") ELSE f1

DataSources(intent) ==
    IF intent \in {"trend", "growth_markets", "channel_pack"} THEN <<"Insights360 - Sales Facts">>
    ELSE IF intent = "segment_repeat" THEN <<"Insights360 - Segment Analytics">>
    ELSE IF intent = "occasions" THEN <<"Past Projects - Consumer Research">>
    ELSE <<>>

\* _extract_metadata(question, intent, handler_result)
ExtractMetadata(q, intent) ==
    LET q_lower == Lower(q)
        detected == DetectTimeRange(q_lower)
    IN  [data_sources |-> DataSources(intent),
         time_range |-> IF detected \in {None, ""} THEN DefaultTimeRange(intent) ELSE detected,
         regions |-> Regions(intent, DetectMarkets(q_lower)),
         filters |-> ChannelPackFilters(intent, DetectFiltersFrom(q_lower, 1, <<>>))]

(***************************************************************************)
(* Query reconstruction                                                    *)
(***************************************************************************)
RECURSIVE JoinFrom(_, _, _)
\* sep.join(seq[i..])
JoinFrom(seq, sep, i) ==
    IF i > Len(seq) THEN ""
    ELSE IF i = Len(seq) THEN seq[i]
    ELSE seq[i] \o sep \o JoinFrom(seq, sep, i + 1)

Join(seq, sep) == JoinFrom(seq, sep, 1)

Quoted(seq) == [i \in 1..Len(seq) |-> "'" \o seq[i] \o "'"]

\* [f for f in filters if word in f]
FiltersWith(filters, word) == SelectSeq(filters, LAMBDA f : Contains(f, word))

RECURSIVE Strip(_)
\* str.strip() for blanks
Strip(s) ==
    IF Len(s) > 0 /\ IsSpace(CharAt(s, 1)) THEN Strip(SubSeq(s, 2, Len(s)))
    ELSE IF Len(s) > 0 /\ IsSpace(CharAt(s, Len(s))) THEN Strip(SubSeq(s, 1, Len(s) - 1))
    ELSE s

\* f.split(':')[1]: the text between the first colon and the second (or the end)
AfterColon(f) ==
    LET i == IndexIn(":", f, 1)
        j == IndexIn(":", f, i + 1)
    IN  SubSeq(f, i + 1, IF j = 0 THEN Len(f) ELSE j - 1)

SelectClause(intent) ==
    IF intent = "trend" THEN "SELECT date, SUM(sales_usd) as total_sales"
    ELSE IF intent = "growth_markets" THEN "SELECT market, SUM(sales_usd) as total_sales"
    ELSE IF intent = "channel_pack" THEN "SELECT channel, pack, SUM(sales_usd) as total_sales"
    ELSE IF intent = "segment_repeat" THEN "SELECT age_bucket, AVG(repeat_rate) as avg_repeat_rate"
    ELSE "SELECT occasion, share"

TableName(intent) ==
    IF intent \in {"trend", "growth_markets", "channel_pack"} THEN "sales_facts"
    ELSE IF intent = "segment_repeat" THEN "segment_analytics"
    ELSE "consumer_research"

GroupBy(intent) ==
    IF intent = "trend" THEN "GROUP BY date"
    ELSE IF intent = "growth_markets" THEN "GROUP BY market"
    ELSE IF intent = "channel_pack" THEN "GROUP BY channel, pack"
    ELSE IF intent = "segment_repeat" THEN "GROUP BY age_bucket"
    ELSE ""

TimeClausesNone(time_range) == <<>>

TimeClauses(time_range) ==
    IF time_range \in {None, ""} THEN <<>>
    ELSE IF Contains(time_range, "2024") /\ ~Contains(time_range, "2023")
    THEN <<"date >= '2024-01-01' AND date < '2025-01-01'">>
    ELSE IF Contains(time_range, "2023") /\ ~Contains(time_range, "2024")
    THEN <<"date >= '2023-01-01' AND date < '2024-01-01'">>
    ELSE IF Contains(time_range, "Last 12 months")
    THEN <<"date >= DATE_SUB(CURRENT_DATE, INTERVAL 12 MONTH)">>
    ELSE IF Contains(time_range, "YoY")
    THEN <<"date >= '2023-01-01' AND date < '2025-01-01'">>
    ELSE <<>>

RegionClauses(regions) ==
    IF Len(regions) > 0 /\ ~Contains(regions[1], "All markets")
    THEN <<"market IN (" \o Join(Quoted(regions), ", ") \o ")">>
    ELSE <<>>

ChannelClauses(filters) ==
    LET channel_filters == FiltersWith(filters, "Channel")
    IN  IF Len(channel_filters) = 0 THEN <<>>
        ELSE IF Contains(channel_filters[1], "E-commerce") THEN <<"channel = 'ecommerce'">>
        ELSE IF Contains(channel_filters[1], "Retail") THEN <<"channel = 'retail'">>
        ELSE <<>>

PackClauses(filters) ==
    LET pack_filters == FiltersWith(filters, "Pack")
    IN  IF Len(pack_filters) = 0 THEN <<>>
        ELSE IF Contains(pack_filters[1], "Multipack") THEN <<"pack = 'multipack'">>
        ELSE IF Contains(pack_filters[1], "Single") THEN <<"pack = 'single'">>
        ELSE <<>>

AgeClauses(filters) ==
    LET age_filters == FiltersWith(filters, "Age")
        age_values == [i \in 1..Len(age_filters) |-> Strip(AfterColon(age_filters[i]))]
    IN  IF Len(age_filters) = 0 THEN <<>>
        ELSE <<"age_bucket IN (" \o Join(Quoted(age_values), ", ") \o ")">>

ProductClauses(intent) ==
    IF intent \in {"trend", "growth_markets", "channel_pack"}
    THEN <<"product = 'yogurt'">> ELSE <<>>

WhereClausesProductFirst(intent, metadata) ==
    ProductClauses(intent)
        \o TimeClauses(metadata.time_range) \o RegionClauses(metadata.regions)
        \o ChannelClauses(metadata.filters) \o PackClauses(metadata.filters)
        \o AgeClauses(metadata.filters)

WhereClauses(intent, metadata) ==
    TimeClauses(metadata.time_range) \o RegionClauses(metadata.regions)
        \o ChannelClauses(metadata.filters) \o PackClauses(metadata.filters)
        \o AgeClauses(metadata.filters) \o ProductClauses(intent)

GenerateSqlQueryNoLimit(intent, metadata) ==
    LET where_clauses == WhereClauses(intent, metadata)
        q1 == SelectClause(intent) \o "\nFROM " \o TableName(intent)
        q2 == IF Len(where_clauses) > 0
              THEN q1 \o "\nWHERE " \o Join(where_clauses, " AND ") ELSE q1
        q3 == IF GroupBy(intent) # "" THEN q2 \o "\n" \o GroupBy(intent) ELSE q2
    IN  IF intent \in {"growth_markets", "channel_pack"} THEN q3 \o "\nORDER BY total_sales DESC"
        ELSE IF intent = "occasions" THEN q3 \o "\nORDER BY share DESC"
        ELSE q3

\* _generate_sql_query(intent, metadata)
GenerateSqlQuery(intent, metadata) ==
    LET where_clauses == WhereClauses(intent, metadata)
        q1 == SelectClause(intent) \o "\nFROM " \o TableName(intent)
        q2 == IF Len(where_clauses) > 0
              THEN q1 \o "\nWHERE " \o Join(where_clauses, " AND ") ELSE q1
        q3 == IF GroupBy(intent) # "" THEN q2 \o "\n" \o GroupBy(intent) ELSE q2
    IN  IF intent = "growth_markets" THEN q3 \o "\nORDER BY total_sales DESC\nLIMIT 3"
        ELSE IF intent = "occasions" THEN q3 \o "\nORDER BY share DESC"
        ELSE q3

(***************************************************************************)
(* answer()                                                                *)
(***************************************************************************)
\* what each entry of the dispatch table returns when it is called in random
\* state r with chart file chart
Handlers(r, chart) ==
    [trend |-> HandleTrend(r, chart),
     growth_markets |-> HandleGrowthMarkets(r, chart),
     segment_repeat |-> HandleSegmentRepeat(r, chart),
     occasions |-> HandleOccasions(r, chart),
     channel_pack |-> HandleChannelPack(r, chart)]

DispatchTrend(handlers, intent) == handlers.trend

\* handlers.get(intent, _handle_trend)()
Dispatch(handlers, intent) ==
    IF intent \in DOMAIN handlers THEN handlers[intent] ELSE handlers.trend

SetDefaultAlways(rec, key, value) ==
    [k \in DOMAIN rec \cup {key} |-> IF k = key THEN value ELSE rec[k]]

\* result.setdefault(key, value)
SetDefault(rec, key, value) ==
    IF key \in DOMAIN rec THEN rec ELSE rec @@ (key :> value)

AssembleNoQuery(handled, metadata, sql_query) ==
    SetDefault(SetDefault(SetDefault(handled, "kpis", <<>>), "table", <<>>),
               "chart_path", None) @@ [metadata |-> metadata]

\* the three setdefault calls and the two keys answer() adds
Assemble(handled, metadata, sql_query) ==
    SetDefault(SetDefault(SetDefault(handled, "kpis", <<>>), "table", <<>>),
               "chart_path", None)
        @@ [metadata |-> metadata, sql_query |-> sql_query]

\* answer(question) with the dispatch table evaluated in the current state:
\* the object returned, and the random state and chart file left behind
AnswerWith(q, handlers) ==
    LET intent == RouteIntent(q)
        h == Dispatch(handlers, intent)
        metadata == ExtractMetadata(q, intent)
        sql_query == GenerateSqlQuery(intent, metadata)
    IN  [result |-> Assemble(h.result, metadata, sql_query), rng |-> h.rng, chart |-> h.chart]

(***************************************************************************)
(* Questions                                                               *)
(***************************************************************************)
MaxFrags == 2

\* fragments that decide the route (the en dash of the third test question
\* is written ~: neither is a word character, a blank or part of a pattern)
RouteWords ==
    <<"Monthly", "top 3", "growth", "Repeat Rate", "occasion", "Retail", "multipack",
      "yogurt">>

\* fragments that name markets
MarketWords == <<"US", "uk", "Germany", "in", "market", "India", "BR", "busy">>

RECURSIVE Phrases(_, _)
\* the questions of at most n fragments of vocabulary v, joined by blanks
Phrases(v, n) ==
    IF n = 0 THEN {""}
    ELSE LET shorter == Phrases(v, n - 1)
         IN  shorter \cup {IF p = "" THEN v[i] ELSE p \o " " \o v[i] :
                             p \in shorter, i \in 1..Len(v)}

\* src/tests/test_intents.py, with the intent each test expects
Corpus ==
    <<[q |-> "How is yogurt doing at FreshFoods? Show the last 12 months trend.", intent |-> "trend"],
      [q |-> "Show me the monthly trend", intent |-> "trend"],
      [q |-> "How is yogurt doing", intent |-> "trend"],
      [q |-> "Which were the top 3 growth markets for yogurt last year?", intent |-> "growth_markets"],
      [q |-> "Which markets have the fastest growing sales?", intent |-> "growth_markets"],
      [q |-> "top 3 growth markets", intent |-> "growth_markets"],
      [q |-> "Among 18~34 vs 35~54, who has higher repeat rate for yogurt?", intent |-> "segment_repeat"],
      [q |-> "What is the repeat rate by age segment?", intent |-> "segment_repeat"],
      [q |-> "trial vs repeat", intent |-> "segment_repeat"],
      [q |-> "What are the top consumption occasions for shelf-stable yogurt?", intent |-> "occasions"],
      [q |-> "When do people consume yogurt?", intent |-> "occasions"],
      [q |-> "consumption occasions", intent |-> "occasions"],
      [q |-> "In e-commerce vs retail, which channel grew faster for multipack yogurt?", intent |-> "channel_pack"],
      [q |-> "ecommerce single pack growth", intent |-> "channel_pack"],
      [q |-> "which channel grew faster", intent |-> "channel_pack"],
      [q |-> "How is yogurt doing?", intent |-> "trend"]>>

CorpusQuestions == {Corpus[i].q : i \in 1..Len(Corpus)}

Questions ==
    Phrases(RouteWords, MaxFrags) \cup Phrases(MarketWords, MaxFrags) \cup CorpusQuestions
        \cup {"growth in the US and UK market"}

\* fragments that name a time range ("year 2 date" names none)
TimeWords == <<"Last 12 months", "2024", "2023", "YoY", "last  year", "ytd", "year 2 date">>

\* one fragment for each filter label, in the order of the labels
FilterWords == <<"E-Commerce", "Retail", "multi  pack", "single", "18 to 34", "35-54", "55 plus">>

\* other spellings of the filters, and spellings that are none ("e commerce",
\* "multi", "18~34" for the en dash)
FilterVariants ==
    <<"ecommerce", "multipack", "single pack", "18-34", "35 to 54", "55+", "year over year",
      "e commerce", "multi", "18~34">>

\* the fragments of FilterWords chosen by picks, last label first
Picked(picks) ==
    Join(SelectSeq([i \in 1..Len(FilterWords) |-> FilterWords[Len(FilterWords) + 1 - i]],
                   LAMBDA w : \E k \in picks : FilterWords[k] = w), " ")

\* questions that name time ranges, markets and filters
MetaQuestions ==
    Phrases(TimeWords, MaxFrags) \cup Phrases(MarketWords, MaxFrags)
        \cup {Picked(picks) : picks \in SUBSET (1..Len(FilterWords))}
        \cup {"UK " \o Picked(picks) \o " Brazil 2023" : picks \in SUBSET (1..Len(FilterWords))}
        \cup Phrases(FilterVariants, 1)

(***************************************************************************)
(* The state machine                                                       *)
(***************************************************************************)
NoResult == [intent |-> None]
NoMemo == [q |-> None, table |-> <<>>, kpis |-> <<>>]
NoOut == [op |-> None, value |-> <<>>]
NoCalls == [threads |-> <<>>, last |-> 0, switches |-> 0]
NoCli == [mode |-> None]
NoUi == [session |-> None]

Init ==
    /\ zTable \in SampleStreams
    /\ hashSeed \in HashSeeds
    /\ rng = UnseededRng
    /\ chartFile = NoChart
    /\ pc = "idle"
    /\ question = ""
    /\ result = NoResult
    /\ memo = NoMemo
    /\ out = NoOut
    /\ calls = NoCalls
    /\ cli = NoCli
    /\ ui = NoUi

\* a caller (cli.py, api.py, the tests) calls answer(q) for a question of qs
AnswerFrom(qs) ==
    /\ pc = "idle"
    /\ \E handlers \in {Handlers(rng, chartFile)} :
         \E q \in qs :
           \E a \in {AnswerWith(q, handlers)} :
             /\ question' = q
             /\ result' = a.result
             /\ rng' = a.rng
             /\ chartFile' = a.chart
    /\ pc' = "answered"
    /\ UNCHANGED <<zTable, hashSeed, memo, out, calls, cli, ui>>

Answer == AnswerFrom(Questions)

\* the caller is done with the object it was given
Return ==
    /\ pc = "answered"
    /\ pc' = "idle"
    /\ question' = ""
    /\ result' = NoResult
    /\ UNCHANGED <<zTable, hashSeed, rng, chartFile, memo, out, calls, cli, ui>>

Next == Answer \/ Return

Spec == Init /\ [][Next]_vars

(***************************************************************************)
(* Repeated questions: the caller may keep one answer and compare a later  *)
(* answer to the same question with it.                                    *)
(***************************************************************************)
InitRepeat ==
    /\ zTable \in RepeatStreams
    /\ hashSeed \in HashSeeds
    /\ rng = UnseededRng
    /\ chartFile = NoChart
    /\ pc = "idle"
    /\ question = ""
    /\ result = NoResult
    /\ memo = NoMemo
    /\ out = NoOut
    /\ calls = NoCalls
    /\ cli = NoCli
    /\ ui = NoUi

\* the first question of each test and the question of the structure test
RepeatQuestions == {Corpus[i].q : i \in {1, 4, 7, 10, 13, 16}}

AnswerCorpus == AnswerFrom(RepeatQuestions)

Remember ==
    /\ pc = "answered"
    /\ memo.q = None
    /\ memo' = [q |-> question, table |-> result.table, kpis |-> result.kpis]
    /\ UNCHANGED <<zTable, hashSeed, rng, chartFile, pc, question, result, out, calls, cli, ui>>

NextRepeat == AnswerCorpus \/ Remember \/ Return

SpecRepeat == InitRepeat /\ [][NextRepeat]_vars

(***************************************************************************)
(* The generators and the two ranking handlers called on their own, over   *)
(* every stream.                                                           *)
(***************************************************************************)
\* a stream as long as the sales table whose draws clamp to 0 the 2023 sales
\* of the markets in dry and all the sales of the markets in dead
ZeroTotalStream(dry, dead) ==
    [j \in 1..NumFactRows |->
       LET row == FactOf(((j - 1 - Seed) % NumFactRows) + 1, 0)
       IN  IF row.market \in dead \/ (row.market \in dry /\ row.date.year = 2023)
           THEN -150 ELSE 10]

ZeroTotalStreams == {ZeroTotalStream({"US"}, {"IN"}), ZeroTotalStream({"US", "UK"}, {})}

InitGen ==
    /\ zTable \in Streams \cup ZeroTotalStreams
    /\ hashSeed \in HashSeeds
    /\ rng = UnseededRng
    /\ chartFile = NoChart
    /\ pc = "idle"
    /\ question = ""
    /\ result = NoResult
    /\ memo = NoMemo
    /\ out = NoOut
    /\ calls = NoCalls
    /\ cli = NoCli
    /\ ui = NoUi

Called(op, value, r) ==
    /\ pc = "idle"
    /\ pc' = "called"
    /\ out' = [op |-> op, value |-> value]
    /\ rng' = r
    /\ UNCHANGED <<zTable, hashSeed, chartFile, question, result, memo, calls, cli, ui>>

CallGenerateFacts ==
    \E g \in {GenerateFacts(rng)} : Called("generate_facts", g.rows, g.rng)

CallGenerateSegments ==
    \E g \in {GenerateSegments(rng)} : Called("generate_segments", g.rows, g.rng)

CallGrowthMarkets ==
    \E h \in {HandleGrowthMarkets(rng, chartFile)} : Called("growth_markets", h.result, h.rng)

CallChannelPack ==
    \E h \in {HandleChannelPack(rng, chartFile)} : Called("channel_pack", h.result, h.rng)

NextGen == CallGenerateFacts \/ CallGenerateSegments \/ CallGrowthMarkets \/ CallChannelPack

SpecGen == InitGen /\ [][NextGen]_vars

(***************************************************************************)
(* Metadata extraction and query reconstruction on their own: lines 502    *)
(* and 506 of answer(), for every intent and every question of             *)
(* MetaQuestions.                                                          *)
(***************************************************************************)
InitMeta ==
    /\ zTable \in SampleStreams
    /\ hashSeed = 0
    /\ rng = UnseededRng
    /\ chartFile = NoChart
    /\ pc = "idle"
    /\ question = ""
    /\ result = NoResult
    /\ memo = NoMemo
    /\ out = NoOut
    /\ calls = NoCalls
    /\ cli = NoCli
    /\ ui = NoUi

\* metadata = _extract_metadata(question, intent, result)
CallExtractMetadata ==
    /\ pc = "idle"
    /\ \E q \in MetaQuestions, intent \in {Intents[k] : k \in 1..Len(Intents)} :
         /\ question' = q
         /\ out' = [op |-> "extract_metadata",
                    value |-> [intent |-> intent, metadata |-> ExtractMetadata(q, intent)]]
    /\ pc' = "extracted"
    /\ UNCHANGED <<zTable, hashSeed, rng, chartFile, result, memo, calls, cli, ui>>

\* sql_query = _generate_sql_query(intent, metadata)
CallGenerateSqlQuery ==
    /\ pc = "extracted"
    /\ out' = [op |-> "generate_sql_query",
               value |-> [intent |-> out.value.intent, metadata |-> out.value.metadata,
                          sql_query |-> GenerateSqlQuery(out.value.intent, out.value.metadata)]]
    /\ pc' = "built"
    /\ UNCHANGED <<zTable, hashSeed, rng, chartFile, question, result, memo, calls, cli, ui>>

NextMeta == CallExtractMetadata \/ CallGenerateSqlQuery

SpecMeta == InitMeta /\ [][NextMeta]_vars

(***************************************************************************)
(* Two answer() calls in two threads of one process (each browser session  *)
(* of the Streamlit front end runs its script in a thread of its own).     *)
(* np.random.seed and each np.random.normal are atomic; a thread may be    *)
(* switched out between iterations of the outer loop of a generator, some  *)
(* of the points where the interpreter may switch, and at most MaxSwitches *)
(* times while it is not done.                                             *)
(***************************************************************************)
MaxSwitches == 1

\* one question of the tests for the trend, segment_repeat and occasions intents
ConcQuestions == {Corpus[2].q, Corpus[9].q, Corpus[12].q}

\* the generator the handler of intent calls
GeneratorOf(intent) ==
    IF intent \in {"trend", "growth_markets", "channel_pack"} THEN "facts"
    ELSE IF intent = "segment_repeat" THEN "segments"
    ELSE None

\* the draws the generator makes in all, and in one iteration of its outer loop
DrawsOf(generator) ==
    IF generator = "facts" THEN NumFactRows ELSE 2 * NumSegmentRows
DrawsPerIteration(generator) ==
    IF generator = "facts" THEN Len(Channels) * Len(Packs) * Len(Markets)
    ELSE 2 * Len(AgeBuckets)

\* a call of answer(q) that has not begun
NewCall(q) == [q |-> q, intent |-> None, at |-> "route", draws |-> <<>>, result |-> NoResult]

InitConc ==
    /\ zTable \in SampleStreams
    /\ hashSeed = 0
    /\ rng = UnseededRng
    /\ chartFile = NoChart
    /\ pc = "idle"
    /\ question = ""
    /\ result = NoResult
    /\ memo = NoMemo
    /\ out = NoOut
    /\ \E q1, q2 \in ConcQuestions :
         calls = [threads |-> <<NewCall(q1), NewCall(q2)>>, last |-> 0, switches |-> 0]
    /\ cli = NoCli
    /\ ui = NoUi

\* thread t is switched in while the thread that ran last is not done
Switched(t) ==
    calls.last # 0 /\ calls.last # t /\ calls.threads[calls.last].at # "done"

\* thread t may take its next step, which is step
Scheduled(t, step) ==
    /\ t \in DOMAIN calls.threads
    /\ calls.threads[t].at = step
    /\ Switched(t) => calls.switches < MaxSwitches

\* the calls after thread t has taken a step that leaves its call as call
After(t, call) ==
    [threads |-> [calls.threads EXCEPT ![t] = call],
     last |-> t,
     switches |-> IF Switched(t) THEN calls.switches + 1 ELSE calls.switches]

\* intent = _route_intent(question)
ThreadRoute(t) ==
    /\ Scheduled(t, "route")
    /\ \E intent \in {RouteIntent(calls.threads[t].q)} :
         calls' = After(t, [calls.threads[t] EXCEPT
                                !.intent = intent,
                                !.at = IF GeneratorOf(intent) = None THEN "finish"
                                       ELSE "seed"])
    /\ UNCHANGED <<zTable, hashSeed, rng, chartFile, pc, question, result, memo, out, cli, ui>>

\* np.random.seed(42) in the generator
ThreadSeed(t) ==
    /\ Scheduled(t, "seed")
    /\ calls' = After(t, [calls.threads[t] EXCEPT !.at = "draw"])
    /\ rng' = Reseed(rng)
    /\ UNCHANGED <<zTable, hashSeed, chartFile, pc, question, result, memo, out, cli, ui>>

\* one iteration of the outer loop of the generator: its draws, in a row
ThreadDraw(t) ==
    /\ Scheduled(t, "draw")
    /\ LET generator == GeneratorOf(calls.threads[t].intent)
           n == DrawsPerIteration(generator)
           draws == calls.threads[t].draws \o [j \in 1..n |-> NextZ(Advance(rng, j - 1))]
       IN  /\ calls' = After(t, [calls.threads[t] EXCEPT
                                    !.draws = draws,
                                    !.at = IF Len(draws) = DrawsOf(generator)
                                           THEN "finish" ELSE "draw"])
           /\ rng' = Advance(rng, n)
    /\ UNCHANGED <<zTable, hashSeed, chartFile, pc, question, result, memo, out, cli, ui>>

\* what the handler of intent returns on the rows made of draws
HandledFrom(intent, draws, r, chart) ==
    LET facts == [rows |-> Eager([i \in 1..NumFactRows |-> FactOf(i, draws[i])]), rng |-> r]
        segments == [rows |-> Eager([i \in 1..NumSegmentRows |->
                                       SegmentOf(i, draws[2 * i - 1], draws[2 * i])]),
                     rng |-> r]
    IN  CASE intent = "trend" -> TrendFrom(facts, chart)
          [] intent = "growth_markets" -> GrowthMarketsFrom(facts, chart)
          [] intent = "channel_pack" -> ChannelPackFrom(facts, chart)
          [] intent = "segment_repeat" -> SegmentRepeatFrom(segments, chart)
          [] OTHER -> HandleOccasions(r, chart)

\* the rest of the handler and of answer(): the table of the generator, the
\* handler's result, the chart, the metadata and the query
ThreadFinish(t) ==
    /\ Scheduled(t, "finish")
    /\ LET call == calls.threads[t]
       IN  \E h \in {HandledFrom(call.intent, call.draws, rng, chartFile)} :
             \E metadata \in {ExtractMetadata(call.q, call.intent)} :
               /\ calls' = After(t, [call EXCEPT
                                    !.at = "done",
                                    !.result = Assemble(h.result, metadata,
                                                        GenerateSqlQuery(call.intent, metadata))])
               /\ chartFile' = h.chart
    /\ UNCHANGED <<zTable, hashSeed, rng, pc, question, result, memo, out, cli, ui>>

NextConc ==
    \E t \in 1..2 : ThreadRoute(t) \/ ThreadSeed(t) \/ ThreadDraw(t) \/ ThreadFinish(t)

SpecConc == InitConc /\ [][NextConc]_vars

(***************************************************************************)
(* The terminal front end: main() of cli.py, in the one-shot mode (the     *)
(* question is the command-line arguments) or in the interactive loop.     *)
(* The environment decides whether trend.png can be written in the working *)
(* directory (plt.savefig raises an OSError otherwise) and whether the     *)
(* terminal's encoding has the characters _print_result prints (print      *)
(* raises a UnicodeEncodeError otherwise).                                 *)
(***************************************************************************)
MaxAsked == 2

Modes == {"oneshot", "interactive"}

\* the lines typed at the prompt
CliLines == CorpusQuestions \cup {"", "  ", "exit", " QUIT "}

InitCli ==
    /\ zTable \in SampleStreams
    /\ hashSeed = 0
    /\ rng = UnseededRng
    /\ chartFile = NoChart
    /\ pc = "idle"
    /\ question = ""
    /\ result = NoResult
    /\ memo = NoMemo
    /\ out = NoOut
    /\ calls = NoCalls
    /\ ui = NoUi
    /\ \E mode \in Modes, writable, encodes \in BOOLEAN :
         cli = [mode |-> mode, at |-> "start", writable |-> writable, encodes |-> encodes,
                printed |-> None, raised |-> None, uncaught |-> FALSE, asked |-> 0]

\* result = answer(question); _print_result(result): the exception raised,
\* if any, and what is left behind
AnswerAndPrint(q, handlers) ==
    LET a == AnswerWith(q, handlers)
    IN  IF RouteIntent(q) = "trend" /\ ~cli.writable
        THEN [raised |-> "OSError", result |-> NoResult, rng |-> a.rng, chart |-> chartFile]
        ELSE [raised |-> IF cli.encodes THEN None ELSE "UnicodeEncodeError",
              result |-> a.result, rng |-> a.rng, chart |-> a.chart]

\* main() with command-line arguments: no handler around the two calls
MainOneShot ==
    /\ cli.mode = "oneshot" /\ cli.at = "start"
    /\ \E handlers \in {Handlers(rng, chartFile)} :
        \E q \in CorpusQuestions :
         \E o \in {AnswerAndPrint(q, handlers)} :
           /\ question' = q
           /\ result' = o.result
           /\ rng' = o.rng
           /\ chartFile' = o.chart
           /\ cli' = [cli EXCEPT !.at = "exited",
                                 !.printed = IF o.raised = None THEN "result" ELSE "traceback",
                                 !.raised = o.raised,
                                 !.uncaught = o.raised # None]
    /\ UNCHANGED <<zTable, hashSeed, pc, memo, out, calls, ui>>

\* main() without arguments: the banner, then the first prompt
MainBanner ==
    /\ cli.mode = "interactive" /\ cli.at = "start"
    /\ cli' = [cli EXCEPT !.at = "prompt", !.printed = "banner"]
    /\ UNCHANGED <<zTable, hashSeed, rng, chartFile, pc, question, result, memo, out, calls, ui>>

\* one iteration of the loop on a line typed at the prompt
MainLine ==
    /\ cli.mode = "interactive" /\ cli.at = "prompt"
    /\ cli.asked < MaxAsked
    /\ \E handlers \in {Handlers(rng, chartFile)} :
        \E line \in CliLines :
         \E q \in {Strip(line)} :
           IF q = ""
           THEN /\ cli' = [cli EXCEPT !.asked = @ + 1, !.raised = None, !.printed = None]
                /\ UNCHANGED <<question, result, rng, chartFile>>
           ELSE IF Lower(q) \in {"exit", "quit"}
           THEN /\ cli' = [cli EXCEPT !.asked = @ + 1, !.raised = None, !.printed = None,
                                      !.at = "exited"]
                /\ UNCHANGED <<question, result, rng, chartFile>>
           ELSE \E o \in {AnswerAndPrint(q, handlers)} :
                  /\ question' = q
                  /\ result' = o.result
                  /\ rng' = o.rng
                  /\ chartFile' = o.chart
                  /\ cli' = [cli EXCEPT !.asked = @ + 1,
                                        !.raised = o.raised,
                                        !.printed = IF o.raised = None THEN "result"
                                                    ELSE "error"]
    /\ UNCHANGED <<zTable, hashSeed, pc, memo, out, calls, ui>>

\* Ctrl-C at the prompt: except KeyboardInterrupt
MainInterrupt ==
    /\ cli.mode = "interactive" /\ cli.at = "prompt"
    /\ cli' = [cli EXCEPT !.at = "exited", !.raised = None, !.printed = "exiting"]
    /\ UNCHANGED <<zTable, hashSeed, rng, chartFile, pc, question, result, memo, out, calls, ui>>

NextCli == MainOneShot \/ MainBanner \/ MainLine \/ MainInterrupt

SpecCli == InitCli /\ [][NextCli]_vars

(***************************************************************************)
(* The browser front end: streamlit_app.py, one session.  Each step is one *)
(* run of the script on one widget event; st.session_state outlives the    *)
(* run, also when the run ends in st.rerun() or in an exception.  The      *)
(* environment decides whether trend.png can be written (plt.savefig       *)
(* raises an OSError inside answer() otherwise).                           *)
(***************************************************************************)
MaxHistory == 2
MaxSaved == 1

\* two of the quick questions, and the questions typed into the chat input
example_questions == <<Corpus[1].q, Corpus[10].q>>
Prompts == {Corpus[2].q, Corpus[10].q}

\* selected_chat_index: None, or an index counted from 0
NoIndex == [none |-> TRUE]
IndexAt(i) == [index |-> i]

InitUi ==
    /\ zTable \in SampleStreams
    /\ hashSeed = 0
    /\ rng = UnseededRng
    /\ chartFile = NoChart
    /\ pc = "idle"
    /\ question = ""
    /\ result = NoResult
    /\ memo = NoMemo
    /\ out = NoOut
    /\ calls = NoCalls
    /\ cli = NoCli
    /\ \E writable \in BOOLEAN :
         ui = [session |-> "open", writable |-> writable,
               history |-> <<>>, use_ai_insight |-> FALSE, pinned_questions |-> <<>>,
               saved_insights |-> <<>>, selected_chat_index |-> NoIndex,
               show_settings |-> FALSE, show_help |-> FALSE]

\* the entries of the dispatch table of answer() that the questions of the
\* session reach, each with what its handler returns in the current state
\* (_handle_trend returns only where the chart can be written)
SessionHandlers ==
    IF ui.writable
    THEN [trend |-> HandleTrend(rng, chartFile), occasions |-> HandleOccasions(rng, chartFile)]
    ELSE [occasions |-> HandleOccasions(rng, chartFile)]

\* answer(q) in this session: whether it raises, and what it leaves behind
\* (_handle_trend has generated the sales table when plt.savefig raises)
AnswerOrRaise(q, handlers) ==
    IF RouteIntent(q) = "trend" /\ ~ui.writable
    THEN [raised |-> TRUE, result |-> NoResult,
          rng |-> Advance(Reseed(rng), NumFactRows), chart |-> chartFile]
    ELSE LET a == AnswerWith(q, handlers)
         IN  [raised |-> FALSE, result |-> a.result, rng |-> a.rng, chart |-> a.chart]

generate_insight(q, answer_dict) ==
    "Based on the " \o answer_dict.intent
        \o " analysis, the data shows key trends in yogurt consumption patterns."

\* len(st.session_state.history) - 1
LastIndexPastEnd(history) == IndexAt(Len(history))

LastIndex(history) == IndexAt(Len(history) - 1)

\* the button of the settings panel, and that of the help panel
ClickSettings ==
    /\ ui.session = "open"
    /\ ui' = [ui EXCEPT !.show_settings = ~ui.show_settings, !.show_help = FALSE]
    /\ UNCHANGED <<zTable, hashSeed, rng, chartFile, pc, question, result, memo, out, calls, cli>>

ClickHelp ==
    /\ ui.session = "open"
    /\ ui' = [ui EXCEPT !.show_help = ~ui.show_help, !.show_settings = FALSE]
    /\ UNCHANGED <<zTable, hashSeed, rng, chartFile, pc, question, result, memo, out, calls, cli>>

ClickNewChat ==
    /\ ui.session = "open"
    /\ ui' = [ui EXCEPT !.selected_chat_index = NoIndex]
    /\ UNCHANGED <<zTable, hashSeed, rng, chartFile, pc, question, result, memo, out, calls, cli>>

\* the toggle of the settings panel
ToggleAiInsight ==
    /\ ui.session = "open" /\ ui.show_settings
    /\ ui' = [ui EXCEPT !.use_ai_insight = ~ui.use_ai_insight]
    /\ UNCHANGED <<zTable, hashSeed, rng, chartFile, pc, question, result, memo, out, calls, cli>>

ClickClearAll ==
    /\ ui.session = "open" /\ ui.show_settings
    /\ ui' = [ui EXCEPT !.history = <<>>, !.pinned_questions = <<>>, !.saved_insights = <<>>,
                        !.selected_chat_index = NoIndex]
    /\ UNCHANGED <<zTable, hashSeed, rng, chartFile, pc, question, result, memo, out, calls, cli>>

\* a pinned question: the first entry of the history with its question is selected
ClickPinned ==
    /\ ui.session = "open"
    /\ \E pin_idx \in 1..Len(ui.pinned_questions) :
         LET found == {idx \in 0..(Len(ui.history) - 1) :
                          ui.history[idx + 1].question = ui.pinned_questions[pin_idx].question}
         IN  /\ found # {}
             /\ ui' = [ui EXCEPT !.selected_chat_index =
                                     IndexAt(CHOOSE idx \in found : \A j \in found : idx <= j)]
    /\ UNCHANGED <<zTable, hashSeed, rng, chartFile, pc, question, result, memo, out, calls, cli>>

ClickChat ==
    /\ ui.session = "open"
    /\ \E idx \in 0..(Len(ui.history) - 1) :
         ui' = [ui EXCEPT !.selected_chat_index = IndexAt(idx)]
    /\ UNCHANGED <<zTable, hashSeed, rng, chartFile, pc, question, result, memo, out, calls, cli>>

PinAlways(pinned_questions, item) ==
    Append(pinned_questions, [question |-> item.question, answer |-> item.answer])

\* the pin button of item: unpin its question when it is pinned, pin it otherwise
PinToggle(pinned_questions, item) ==
    IF \E k \in 1..Len(pinned_questions) : pinned_questions[k].question = item.question
    THEN SelectSeq(pinned_questions, LAMBDA p : p.question # item.question)
    ELSE Append(pinned_questions, [question |-> item.question, answer |-> item.answer])

ClickPinToggle ==
    /\ ui.session = "open"
    /\ \E idx \in 0..(Len(ui.history) - 1) :
         ui' = [ui EXCEPT !.pinned_questions = PinToggle(ui.pinned_questions, ui.history[idx + 1])]
    /\ UNCHANGED <<zTable, hashSeed, rng, chartFile, pc, question, result, memo, out, calls, cli>>

\* the entry idx is shown in the right panel: the selected one, or all of them
Displayed(idx) ==
    IF ui.selected_chat_index # NoIndex /\ ui.selected_chat_index.index < Len(ui.history)
    THEN idx = ui.selected_chat_index.index
    ELSE TRUE

\* the save button display_chat_item shows under an answer
ClickSaveInsight ==
    /\ ui.session = "open"
    /\ Len(ui.saved_insights) < MaxSaved
    /\ \E idx \in 0..(Len(ui.history) - 1) :
         LET item == ui.history[idx + 1]
         IN  /\ Displayed(idx)
             /\ item.answer # NoResult
             /\ ui' = [ui EXCEPT !.saved_insights =
                           Append(@, [title |-> SubSeq(item.question, 1, Min(50, Len(item.question))),
                                      content |-> item.answer.text,
                                      question |-> item.question])]
    /\ UNCHANGED <<zTable, hashSeed, rng, chartFile, pc, question, result, memo, out, calls, cli>>

ClickDeleteInsight ==
    /\ ui.session = "open"
    /\ \E insight_idx \in 1..Len(ui.saved_insights) :
         ui' = [ui EXCEPT !.saved_insights =
                              SubSeq(@, 1, insight_idx - 1) \o SubSeq(@, insight_idx + 1, Len(@))]
    /\ UNCHANGED <<zTable, hashSeed, rng, chartFile, pc, question, result, memo, out, calls, cli>>

\* a quick question: answer() first, then the entry
ClickQuickQuestion ==
    /\ ui.session = "open"
    /\ Len(ui.history) < MaxHistory
    /\ \E handlers \in {SessionHandlers} :
        \E i \in 1..Len(example_questions) :
         \E o \in {AnswerOrRaise(example_questions[i], handlers)} :
           /\ rng' = o.rng
           /\ chartFile' = o.chart
           /\ ui' = IF o.raised THEN ui
                    ELSE LET history == Append(ui.history,
                                 [question |-> example_questions[i],
                                  answer |-> o.result,
                                  insight |-> IF ui.use_ai_insight
                                              THEN generate_insight(example_questions[i], o.result)
                                              ELSE None])
                         IN  [ui EXCEPT !.history = history,
                                        !.selected_chat_index = LastIndex(history)]
    /\ UNCHANGED <<zTable, hashSeed, pc, question, result, memo, out, calls, cli>>

\* a question typed into the chat input: the entry first, then answer()
SubmitPrompt ==
    /\ ui.session = "open"
    /\ Len(ui.history) < MaxHistory
    /\ \E handlers \in {SessionHandlers} :
        \E prompt \in Prompts :
         \E o \in {AnswerOrRaise(prompt, handlers)} :
           /\ rng' = o.rng
           /\ chartFile' = o.chart
           /\ ui' = IF o.raised
                    THEN [ui EXCEPT !.history =
                              Append(@, [question |-> prompt, answer |-> NoResult,
                                         insight |-> None])]
                    ELSE LET history == Append(ui.history,
                                 [question |-> prompt,
                                  answer |-> o.result,
                                  insight |-> IF ui.use_ai_insight
                                              THEN generate_insight(prompt, o.result)
                                              ELSE None])
                         IN  [ui EXCEPT !.history = history,
                                        !.selected_chat_index = LastIndex(history)]
    /\ UNCHANGED <<zTable, hashSeed, pc, question, result, memo, out, calls, cli>>

NextUi ==
    \/ ClickSettings \/ ClickHelp \/ ClickNewChat \/ ToggleAiInsight \/ ClickClearAll
    \/ ClickPinned \/ ClickChat \/ ClickPinToggle \/ ClickSaveInsight \/ ClickDeleteInsight
    \/ ClickQuickQuestion \/ SubmitPrompt

SpecUi == InitUi /\ [][NextUi]_vars

(***************************************************************************)
(* Properties of routing and of the answer object (Spec)                   *)
(***************************************************************************)
\* the patterns of the router that match the lower-cased question q
Matching(q) == {k \in 1..Len(RoutePatterns) : Search(RoutePatterns[k], Lower(q))}

\* C1: the route of the question answered is the label of the first pattern,
\* in the order trend, growth_markets, segment_repeat, occasions,
\* channel_pack, that matches the lower-cased question (so a question that
\* matches the trend pattern and a later one goes to trend), and writing the
\* question in upper or in lower case leaves the route unchanged.
C1_FirstMatchWins ==
    pc = "answered" =>
        /\ \A k \in Matching(question) :
             (\A j \in Matching(question) : k <= j) => RouteIntent(question) = Intents[k]
        /\ RouteIntent(Upper(question)) = RouteIntent(question)
        /\ RouteIntent(Lower(question)) = RouteIntent(question)

\* a question in mixed case that matches the trend pattern and a later one
C1_Witness ==
    /\ pc = "answered"
    /\ Matching(question) = {1, 3}
    /\ question # Lower(question)
    /\ question # Upper(question)
    /\ result.intent = "trend"

\* C2: a question that matches none of the five patterns (the empty string
\* included) is routed to trend and answered by the trend handler, and the
\* route of every question is one of the five intent labels.
C2_FallbackToTrend ==
    pc = "answered" =>
        /\ RouteIntent(question) \in {Intents[k] : k \in 1..Len(Intents)}
        /\ Matching(question) = {} =>
             /\ RouteIntent(question) = "trend"
             /\ result.intent = "trend"
             /\ result.chart_path = "trend.png"
             /\ result.metadata.data_sources = DataSources("trend")

\* the empty question, answered by the trend handler
C2_Witness ==
    /\ pc = "answered"
    /\ question = ""
    /\ Matching(question) = {}
    /\ result.intent = "trend"
    /\ chartFile # NoChart

\* C3: the intent of the answer is the route of the question, and every
\* question of the test corpus gets the intent its test expects.
C3_IntentIsRoute ==
    pc = "answered" =>
        /\ result.intent = RouteIntent(question)
        /\ \A i \in 1..Len(Corpus) : question = Corpus[i].q => result.intent = Corpus[i].intent

\* a channel_pack question of the corpus, answered
C3_Witness ==
    /\ pc = "answered"
    /\ question = Corpus[13].q
    /\ result.intent = "channel_pack"

\* C4: the answer object has an intent that is not None, a text list that is
\* not empty, and the keys kpis, table, metadata and sql_query, whichever
\* handler produced it.
C4_AnswerStructure ==
    pc = "answered" =>
        /\ "intent" \in DOMAIN result
        /\ result.intent # None
        /\ "text" \in DOMAIN result
        /\ Len(result.text) > 0
        /\ {"kpis", "table", "metadata", "sql_query"} \subseteq DOMAIN result

\* an answer of a handler that returns no chart path of its own
C4_Witness ==
    /\ pc = "answered"
    /\ result.intent = "occasions"
    /\ result.chart_path = None
    /\ Len(result.table) > 0

\* the start positions at which the k-th market pattern matches in s
MarketAt(k, s) == {i \in 0..Len(s) : Ends(market_patterns[k].pattern, s, i) # {}}

\* the market patterns that match somewhere in s
Mentioned(s) == {k \in 1..Len(market_patterns) : MarketAt(k, s) # {}}

\* where the k-th market is first seen in s
FirstSeenAt(k, s) == CHOOSE i \in MarketAt(k, s) : \A j \in MarketAt(k, s) : i <= j

\* the entry of market_patterns with market code c
CodeIndex(c) == CHOOSE k \in 1..Len(market_patterns) : market_patterns[k].market_code = c

\* regions lists the code of every market mentioned in s, each once
ListsMentioned(regions, s) ==
    /\ Len(regions) = Cardinality(Mentioned(s))
    /\ \A k \in Mentioned(s) :
         Cardinality({i \in 1..Len(regions) : regions[i] = market_patterns[k].market_code}) = 1

\* C10 as stated: when the question mentions markets, metadata.regions lists
\* each detected market code once, in the order in which the markets are
\* first seen in the question.
C10_FirstSeenOrder ==
    (pc = "answered" /\ Mentioned(Lower(question)) # {}) =>
        LET regions == result.metadata.regions
            s == Lower(question)
        IN  /\ ListsMentioned(regions, s)
            /\ \A i, j \in 1..Len(regions) :
                 i < j => FirstSeenAt(CodeIndex(regions[i]), s) <= FirstSeenAt(CodeIndex(regions[j]), s)

\* C10 (amended): when the question mentions markets, metadata.regions lists
\* each detected market code once, in the fixed order US, UK, DE, IN, BR of
\* the detection patterns, whatever the order of the mentions in the
\* question; 'growth in the US and UK market' gives [US, UK].
C10_PatternOrder ==
    (pc = "answered" /\ Mentioned(Lower(question)) # {}) =>
        LET regions == result.metadata.regions
        IN  /\ ListsMentioned(regions, Lower(question))
            /\ \A i, j \in 1..Len(regions) : i < j => CodeIndex(regions[i]) < CodeIndex(regions[j])
            /\ question = "growth in the US and UK market" => regions = <<"US", "UK">>

\* a question that mentions a later market of the list before an earlier one
C10_Witness ==
    /\ pc = "answered"
    /\ Cardinality(Mentioned(Lower(question))) >= 2
    /\ LET regions == result.metadata.regions
       IN  \E i, j \in 1..Len(regions) :
             /\ i < j
             /\ FirstSeenAt(CodeIndex(regions[i]), Lower(question))
                  > FirstSeenAt(CodeIndex(regions[j]), Lower(question))

(***************************************************************************)
(* Repeated questions (SpecRepeat)                                         *)
(***************************************************************************)
\* C5: the answer to a question asked before has the table and the kpis of
\* the remembered answer to it, whatever was answered before or in between.
C5_RepeatedAnswer ==
    (pc = "answered" /\ memo.q = question) =>
        /\ result.table = memo.table
        /\ result.kpis = memo.kpis

\* a segment question answered again after a question that drew the chart
C5_Witness ==
    /\ pc = "answered"
    /\ memo.q = question
    /\ result.intent = "segment_repeat"
    /\ chartFile # NoChart
    /\ result.table = memo.table

(***************************************************************************)
(* Generators and ranking handlers (SpecGen)                               *)
(***************************************************************************)
\* the (date, market, channel, pack) combinations of the sales table
FactKeys ==
    {<<MonthStart(d), Markets[m], Channels[c], Packs[p]>> :
        d \in 1..NumMonths, m \in 1..Len(Markets), c \in 1..Len(Channels), p \in 1..Len(Packs)}

\* rows has one row per combination of FactKeys
OneRowPerCombination(rows) ==
    LET keys == {<<rows[i].date, rows[i].market, rows[i].channel, rows[i].pack>> :
                    i \in 1..Len(rows)}
    IN  /\ keys = FactKeys
        /\ Cardinality(keys) = Len(rows)

\* C6 as stated: generate_facts returns exactly 240 rows, one per (month,
\* market, channel, pack) combination, with sales_usd >= 0 and units >= 0 in
\* every row.
C6_Rows240 ==
    out.op = "generate_facts" =>
        /\ Len(out.value) = 240
        /\ OneRowPerCombination(out.value)
        /\ \A i \in 1..Len(out.value) : out.value[i].sales_usd >= 0 /\ out.value[i].units7 >= 0

\* C6 (amended): generate_facts returns exactly 480 rows (24 months x 5
\* markets x 2 channels x 2 packs), one per combination, with sales_usd >= 0
\* and units >= 0 in every row, whatever the noise.
C6_Rows480 ==
    out.op = "generate_facts" =>
        /\ Len(out.value) = 480
        /\ OneRowPerCombination(out.value)
        /\ \A i \in 1..Len(out.value) : out.value[i].sales_usd >= 0 /\ out.value[i].units7 >= 0

\* a table with a row whose noise is below -1, clamped to zero
C6_Witness ==
    /\ out.op = "generate_facts"
    /\ \E i \in 1..Len(out.value) :
         /\ NextZ(Advance(SeedRng, i - 1)) < -100
         /\ out.value[i].sales_usd = 0
         /\ out.value[i].units7 = 0

\* C7: generate_segments returns exactly 15 rows, one per (market,
\* age_bucket) pair, all of year 2024, with trial_rate <= 1.0 and
\* repeat_rate <= 1.0 in every row, whatever the hash and the noise.
C7_Segments ==
    out.op = "generate_segments" =>
        LET rows == out.value
            keys == {<<rows[i].market, rows[i].age_bucket>> : i \in 1..Len(rows)}
        IN  /\ Len(rows) = 15
            /\ keys = {<<Markets[m], AgeBuckets[a]>> :
                          m \in 1..Len(Markets), a \in 1..Len(AgeBuckets)}
            /\ Cardinality(keys) = Len(rows)
            /\ \A i \in 1..Len(rows) :
                 /\ rows[i].year = 2024
                 /\ rows[i].trial_rate <= 10000
                 /\ rows[i].repeat_rate <= 10000

\* a table with a rate that the noise would carry above 1.0, capped
C7_Witness ==
    /\ out.op = "generate_segments"
    /\ \E i \in 1..Len(out.value) :
         /\ out.value[i].trial_rate = 10000
         /\ 1500 + 20 * NextZ(Advance(SeedRng, 2 * (i - 1))) > 10000

\* the 2023 and 2024 totals of every group of rows, key[i] the group of row i
Totals(rows, groups, key) ==
    [g \in groups |->
       [y23 |-> Total(rows, {i \in DOMAIN rows : rows[i].date.year = 2023 /\ key[i] = g}),
        y24 |-> Total(rows, {i \in DOMAIN rows : rows[i].date.year = 2024 /\ key[i] = g})]]

\* the totals by market, and by channel and pack, of the sales data
MarketTotals(rows) ==
    Totals(rows, {Markets[m] : m \in 1..Len(Markets)}, [i \in DOMAIN rows |-> rows[i].market])
ChannelPackTotals(rows) ==
    Totals(rows, {<<Channels[c], Packs[p]>> : c \in 1..Len(Channels), p \in 1..Len(Packs)},
           [i \in DOMAIN rows |-> <<rows[i].channel, rows[i].pack>>])

\* the YoY percent of totals a is larger than that of totals b (2023 totals
\* positive): a.y24 / a.y23 > b.y24 / b.y23
Higher(a, b) == FracLess(b.y24, b.y23, a.y24, a.y23)

\* C8: on sales data with positive 2023 totals the growth_markets handler
\* returns exactly 3 table rows, the 3 markets of largest YoY percent among
\* the 5, in non-increasing YoY order, each with its YoY percent, and its
\* three KPIs name the same markets in the same order.
C8_TopThreeMarkets ==
    out.op = "growth_markets" =>
        \A t \in {MarketTotals(GenerateFacts(rng).rows)} :
            (\A m \in DOMAIN t : t[m].y23 > 0) =>
                LET table == out.value.table
                    kpis == out.value.kpis
                    listed == {table[i].market : i \in 1..Len(table)}
                IN  /\ Len(table) = 3
                    /\ Cardinality(listed) = 3
                    /\ listed \subseteq DOMAIN t
                    /\ \A i, j \in 1..Len(table) :
                         i < j => ~Higher(t[table[j].market], t[table[i].market])
                    /\ \A m \in DOMAIN t \ listed : \A i \in 1..Len(table) :
                         ~Higher(t[m], t[table[i].market])
                    /\ \A i \in 1..Len(table) :
                         table[i].yoy_growth_pct
                           = <<FmtPct1(YoY(t[table[i].market].y23, t[table[i].market].y24)), "%">>
                    /\ Len(kpis) = 3
                    /\ \A i \in 1..Len(kpis) : kpis[i].value[1] = table[i].market

\* a ranking in which the three rows differ in YoY, a market left out has a
\* smaller YoY than the third row, and the first row is not the first key
C8_Witness ==
    /\ out.op = "growth_markets"
    /\ \E t \in {MarketTotals(GenerateFacts(rng).rows)} :
         LET table == out.value.table
         IN  /\ \A m \in DOMAIN t : t[m].y23 > 0
             /\ Len(table) = 3
             /\ Higher(t[table[1].market], t[table[2].market])
             /\ Higher(t[table[2].market], t[table[3].market])
             /\ \E m \in DOMAIN t : Higher(t[table[3].market], t[m])
             /\ table[1].market # MarketKeys[1]

\* C9: on sales data with positive 2023 totals the channel_pack handler
\* returns exactly 4 table rows, one for each (channel, pack) combination,
\* in non-increasing YoY order, and its KPI names the combination of the
\* first row.
C9_ChannelPackRanking ==
    out.op = "channel_pack" =>
        \A t \in {ChannelPackTotals(GenerateFacts(rng).rows)} :
            (\A g \in DOMAIN t : t[g].y23 > 0) =>
                LET table == out.value.table
                    kpis == out.value.kpis
                    listed == {<<table[i].channel, table[i].pack>> : i \in 1..Len(table)}
                IN  /\ Len(table) = 4
                    /\ listed = DOMAIN t
                    /\ \A i, j \in 1..Len(table) :
                         i < j => ~Higher(t[<<table[j].channel, table[j].pack>>],
                                          t[<<table[i].channel, table[i].pack>>])
                    /\ Len(kpis) = 1
                    /\ kpis[1].value[1] = table[1].channel
                    /\ kpis[1].value[3] = table[1].pack

\* a ranking whose first row has a larger YoY than its last and is not the
\* first key
C9_Witness ==
    /\ out.op = "channel_pack"
    /\ \E t \in {ChannelPackTotals(GenerateFacts(rng).rows)} :
         LET table == out.value.table
         IN  /\ \A g \in DOMAIN t : t[g].y23 > 0
             /\ Len(table) = 4
             /\ Higher(t[<<table[1].channel, table[1].pack>>], t[<<table[4].channel, table[4].pack>>])
             /\ <<table[1].channel, table[1].pack>> # ChannelPackKeys[1]

(***************************************************************************)
(* Metadata and query (SpecMeta)                                           *)
(***************************************************************************)
\* the market codes of market_patterns
MarketCodes == {market_patterns[k].market_code : k \in 1..Len(market_patterns)}

\* C11: metadata.regions is never empty; when the question mentions no
\* market it is the single sentinel 'All markets (US, UK, DE, IN, BR)' for
\* trend, growth_markets, channel_pack and segment_repeat and the single
\* sentinel 'Global' for occasions; when it mentions markets, regions holds
\* market codes only, so no sentinel stands beside a code.
C11_RegionsNeverEmpty ==
    out.op = "extract_metadata" =>
        LET regions == out.value.metadata.regions
            intent == out.value.intent
        IN  /\ Len(regions) > 0
            /\ Mentioned(Lower(question)) = {} =>
                 regions = IF intent = "occasions" THEN <<"Global">>
                           ELSE <<"All markets (US, UK, DE, IN, BR)">>
            /\ Mentioned(Lower(question)) # {} =>
                 \A i \in 1..Len(regions) : regions[i] \in MarketCodes
            /\ (\E i \in 1..Len(regions) : regions[i] \notin MarketCodes) => Len(regions) = 1

\* the metadata of an occasions question that mentions no market
C11_Witness ==
    /\ out.op = "extract_metadata"
    /\ out.value.intent = "occasions"
    /\ Mentioned(Lower(question)) = {}
    /\ out.value.metadata.regions = <<"Global">>

\* the time range patterns in the order they are tried, with their labels
TimePatterns ==
    <<[pattern |-> Last12Pattern, label |-> "Last 12 months"],
      [pattern |-> Y2024Pattern, label |-> "2024"],
      [pattern |-> Y2023Pattern, label |-> "2023"],
      [pattern |-> YoYPattern, label |-> "2023-2024 (YoY)"],
      [pattern |-> YtdPattern, label |-> "Year to date"]>>

\* the time range patterns that match the lower-cased question q
TimeMatching(q) == {k \in 1..Len(TimePatterns) : Search(TimePatterns[k].pattern, Lower(q))}

\* C12: metadata.time_range is the label of the first time range pattern, in
\* the order last 12 months, 2024, 2023, last year / yoy, year to date / ytd,
\* that matches the question; when none matches it is the default of the
\* intent (trend '2024', growth_markets and channel_pack '2023-2024 (YoY)',
\* segment_repeat '2024', occasions 'Current'); it is never None.
C12_TimeRange ==
    out.op = "extract_metadata" =>
        LET time_range == out.value.metadata.time_range
            intent == out.value.intent
            matching == TimeMatching(question)
        IN  /\ \A k \in matching :
                 (\A j \in matching : k <= j) => time_range = TimePatterns[k].label
            /\ matching = {} =>
                 time_range = CASE intent = "trend" -> "2024"
                                [] intent = "growth_markets" -> "2023-2024 (YoY)"
                                [] intent = "channel_pack" -> "2023-2024 (YoY)"
                                [] intent = "segment_repeat" -> "2024"
                                [] intent = "occasions" -> "Current"
            /\ time_range # None

\* a question that names 2023 before 2024 and gets the range 2024
C12_Witness ==
    /\ out.op = "extract_metadata"
    /\ question = "2023 2024"
    /\ TimeMatching(question) = {2, 3}
    /\ out.value.metadata.time_range = "2024"

\* the filter patterns that occur in the lower-cased question q
FilterMatching(q) ==
    {k \in 1..Len(filter_patterns) : Search(filter_patterns[k].pattern, Lower(q))}

\* the places of label in filters
PlacesOf(label, filters) == {i \in 1..Len(filters) : filters[i] = label}

\* C13: each of the seven filter labels is in metadata.filters, once, exactly
\* when its own pattern occurs in the question, the labels in their fixed
\* order; for channel_pack 'Channel: All (E-commerce, Retail)' is added
\* exactly when no channel filter was detected and 'Pack: All (Single,
\* Multipack)' exactly when no pack filter was detected, after the labels;
\* for the other intents no sentinel is added.
C13_Filters ==
    out.op = "extract_metadata" =>
        LET filters == out.value.metadata.filters
            intent == out.value.intent
            hit == FilterMatching(question)
            channel_all == PlacesOf("Channel: All (E-commerce, Retail)", filters)
            pack_all == PlacesOf("Pack: All (Single, Multipack)", filters)
        IN  /\ \A k \in 1..Len(filter_patterns) :
                 Cardinality(PlacesOf(filter_patterns[k].label, filters))
                   = IF k \in hit THEN 1 ELSE 0
            /\ \A k, l \in hit :
                 k < l => \A i \in PlacesOf(filter_patterns[k].label, filters) :
                            \A j \in PlacesOf(filter_patterns[l].label, filters) : i < j
            /\ Cardinality(channel_all)
                 = IF intent = "channel_pack" /\ hit \cap {1, 2} = {} THEN 1 ELSE 0
            /\ Cardinality(pack_all)
                 = IF intent = "channel_pack" /\ hit \cap {3, 4} = {} THEN 1 ELSE 0
            /\ Len(filters) = Cardinality(hit) + Cardinality(channel_all) + Cardinality(pack_all)
            /\ \A i \in channel_all \cup pack_all : i > Cardinality(hit)

\* a channel_pack question that names a channel and an age but no pack
C13_Witness ==
    /\ out.op = "extract_metadata"
    /\ out.value.intent = "channel_pack"
    /\ FilterMatching(question) = {2, 5}
    /\ out.value.metadata.filters
         = <<"Channel: Retail", "Age: 18-34", "Pack: All (Single, Multipack)">>

\* where sub first starts in s, 0 when it does not occur
IndexOf(s, sub) ==
    LET at == {i \in 1..(Len(s) - Len(sub) + 1) : SubSeq(s, i, i + Len(sub) - 1) = sub}
    IN  IF at = {} THEN 0 ELSE CHOOSE i \in at : \A j \in at : i <= j

RECURSIVE SplitLines(_)
\* s.split('\n')
SplitLines(s) ==
    LET i == IndexOf(s, "\n")
    IN  IF i = 0 THEN <<s>>
        ELSE <<SubSeq(s, 1, i - 1)>> \o SplitLines(SubSeq(s, i + 1, Len(s)))

\* line starts with prefix
StartsWith(line, prefix) ==
    Len(line) >= Len(prefix) /\ SubSeq(line, 1, Len(prefix)) = prefix

\* the lines of query that start with prefix
LinesWith(query, prefix) == SelectSeq(SplitLines(query), LAMBDA line : StartsWith(line, prefix))

\* how the six kinds of condition begin: time range, region, channel, pack,
\* age, product
ConditionMarks ==
    <<"date >= ", "market IN (", "channel = '", "pack = '", "age_bucket IN (", "product = '">>

\* C14: in the query built, the conditions of the WHERE line stand in the
\* order time range, region IN-list, channel, pack, age IN-list, product,
\* the first right after WHERE and each other one after ' AND '; product =
\* 'yogurt' is there exactly for trend, growth_markets and channel_pack; and
\* there is a WHERE line exactly when there is some condition.
C14_WhereOrder ==
    out.op = "generate_sql_query" =>
        LET query == out.value.sql_query
            intent == out.value.intent
            where == LinesWith(query, "WHERE ")
            at == [k \in 1..Len(ConditionMarks) |-> IndexOf(query, ConditionMarks[k])]
            present == {k \in 1..Len(ConditionMarks) : at[k] > 0}
        IN  /\ Len(where) <= 1
            /\ Len(where) = 1 <=> present # {}
            /\ Len(where) = 1 <=> Len(WhereClauses(intent, out.value.metadata)) > 0
            /\ \A k \in present :
                 /\ IndexOf(where[1], ConditionMarks[k]) > 0
                 /\ IF \A j \in present : k <= j
                    THEN IndexOf(where[1], ConditionMarks[k]) = Len("WHERE ") + 1
                    ELSE LET i == IndexOf(where[1], ConditionMarks[k])
                         IN  i > 5 /\ SubSeq(where[1], i - 5, i - 1) = " AND "
            /\ \A k, l \in present : k < l => at[k] < at[l]
            /\ 6 \in present <=> intent \in {"trend", "growth_markets", "channel_pack"}
            /\ 6 \in present => IndexOf(query, "product = 'yogurt'") = at[6]

\* a query with all six conditions
C14_Witness ==
    /\ out.op = "generate_sql_query"
    /\ \A k \in 1..Len(ConditionMarks) : IndexOf(out.value.sql_query, ConditionMarks[k]) > 0

\* C15: the query ends with the lines 'ORDER BY total_sales DESC' and
\* 'LIMIT 3' exactly when the intent is growth_markets and with the line
\* 'ORDER BY share DESC' exactly when it is occasions; for trend,
\* segment_repeat and channel_pack it has no ORDER BY and no LIMIT line; it
\* has one GROUP BY line for every intent except occasions, which has none.
C15_OrderByLimit ==
    out.op = "generate_sql_query" =>
        LET query == out.value.sql_query
            intent == out.value.intent
            lines == SplitLines(query)
            n == Len(lines)
        IN  /\ Len(LinesWith(query, "ORDER BY"))
                 = IF intent \in {"growth_markets", "occasions"} THEN 1 ELSE 0
            /\ Len(LinesWith(query, "LIMIT")) = IF intent = "growth_markets" THEN 1 ELSE 0
            /\ intent = "growth_markets" =>
                 n >= 2 /\ lines[n - 1] = "ORDER BY total_sales DESC" /\ lines[n] = "LIMIT 3"
            /\ intent = "occasions" => lines[n] = "ORDER BY share DESC"
            /\ Len(LinesWith(query, "GROUP BY")) = IF intent = "occasions" THEN 0 ELSE 1

\* a growth_markets query with a WHERE line, and its two closing lines
C15_Witness ==
    /\ out.op = "generate_sql_query"
    /\ out.value.intent = "growth_markets"
    /\ Len(LinesWith(out.value.sql_query, "WHERE ")) = 1
    /\ Len(LinesWith(out.value.sql_query, "ORDER BY total_sales DESC")) = 1
    /\ Len(LinesWith(out.value.sql_query, "LIMIT 3")) = 1

\* C16: for intent trend with time_range '2024', the all-markets sentinel as
\* regions and no filters, the query is the four lines SELECT date,
\* SUM(sales_usd) as total_sales / FROM sales_facts / WHERE date >=
\* '2024-01-01' AND date < '2025-01-01' AND product = 'yogurt' / GROUP BY
\* date, with no region, channel, pack or age condition.
C16_GoldenTrendQuery ==
    ( /\ out.op = "generate_sql_query"
      /\ out.value.intent = "trend"
      /\ out.value.metadata.time_range = "2024"
      /\ out.value.metadata.regions = <<"All markets (US, UK, DE, IN, BR)">>
      /\ out.value.metadata.filters = <<>> ) =>
        /\ SplitLines(out.value.sql_query)
             = <<"SELECT date, SUM(sales_usd) as total_sales",
                 "FROM sales_facts",
                 "WHERE date >= '2024-01-01' AND date < '2025-01-01' AND product = 'yogurt'",
                 "GROUP BY date">>
        /\ \A k \in 2..5 : IndexOf(out.value.sql_query, ConditionMarks[k]) = 0

\* the query of a trend question that names neither time, market nor filter
C16_Witness ==
    /\ out.op = "generate_sql_query"
    /\ out.value.intent = "trend"
    /\ question = "busy"
    /\ out.value.metadata.time_range = "2024"
    /\ out.value.metadata.regions = <<"All markets (US, UK, DE, IN, BR)">>
    /\ out.value.metadata.filters = <<>>
    /\ Len(SplitLines(out.value.sql_query)) = 4

(***************************************************************************)
(* Concurrent calls (SpecConc)                                             *)
(***************************************************************************)
\* what answer(q) returns when it runs alone
Alone(q) == AnswerWith(q, Handlers(UnseededRng, NoChart)).result

\* C17: when two answer calls run concurrently in one process, each call
\* returns the kpis and the table it returns when it runs alone.
C17_ConcurrentAsAlone ==
    \A t \in DOMAIN calls.threads :
        calls.threads[t].at = "done" =>
            \A alone \in {Alone(calls.threads[t].q)} :
                /\ calls.threads[t].result.kpis = alone.kpis
                /\ calls.threads[t].result.table = alone.table

(***************************************************************************)
(* The terminal front end (SpecCli)                                        *)
(***************************************************************************)
\* C18: in the terminal front end an exception raised by answer or by
\* printing the result is caught and printed as an error, in the one-shot
\* mode and in the interactive loop, and the loop shows the prompt again.
C18_ExceptionsCaught ==
    (cli.mode \in Modes /\ cli.raised # None) =>
        /\ ~cli.uncaught
        /\ cli.printed = "error"
        /\ cli.mode = "interactive" => cli.at = "prompt"

\* the part of C18 that is about the interactive loop
C18_LoopCatches ==
    (cli.mode = "interactive" /\ cli.raised # None) =>
        ~cli.uncaught /\ cli.printed = "error" /\ cli.at = "prompt"

C18_LoopWitness ==
    cli.mode = "interactive" /\ cli.raised = "UnicodeEncodeError" /\ cli.at = "prompt"

\* C19 as stated: the growth_markets handler fails when some market's 2023
\* total is zero, so it returns a result only when every 2023 total is not
\* zero.
C19_ZeroTotalRaises ==
    out.op = "growth_markets" =>
        \A t \in {MarketTotals(GenerateFacts(rng).rows)} : \A m \in DOMAIN t : t[m].y23 # 0

\* C19, amended: when some market's 2023 total is zero the growth_markets
\* handler raises nothing and returns its three rows; a market of zero 2023
\* total and positive 2024 total has the growth value inf and is ranked
\* before every market of finite growth, one whose two totals are zero has
\* the growth value nan and is ranked after every other market.
C19_ZeroTotalReturns ==
    out.op = "growth_markets" =>
        \A t \in {MarketTotals(GenerateFacts(rng).rows)} :
            LET table == out.value.table
                listed == {table[i].market : i \in 1..Len(table)}
                infs == {m \in DOMAIN t : t[m].y23 = 0 /\ t[m].y24 > 0}
                nans == {m \in DOMAIN t : t[m].y23 = 0 /\ t[m].y24 = 0}
            IN  infs \cup nans # {} =>
                    /\ Len(table) = 3
                    /\ Cardinality(listed) = 3
                    /\ \A i \in 1..Len(table) :
                         /\ table[i].market \in infs =>
                                table[i].yoy_growth_pct = <<Inf(""), "%">>
                         /\ table[i].market \in nans =>
                                table[i].yoy_growth_pct = <<NaN(""), "%">>
                         /\ table[i].market \notin infs =>
                                \A j \in 1..Len(table) : j > i => table[j].market \notin infs
                         /\ table[i].market \in nans =>
                                /\ DOMAIN t \ nans \subseteq listed
                                /\ \A j \in 1..Len(table) : j > i => table[j].market \in nans
                    /\ infs \ listed # {} => listed \subseteq infs

\* a result whose first row is a market of zero 2023 total with the value
\* inf, while a market whose two totals are zero is left out of the rows
C19_Witness ==
    /\ out.op = "growth_markets"
    /\ out.value.table[1].yoy_growth_pct = <<Inf(""), "%">>
    /\ \E t \in {MarketTotals(GenerateFacts(rng).rows)} :
         /\ t[out.value.table[1].market].y23 = 0
         /\ \E m \in DOMAIN t :
              /\ t[m].y23 = 0 /\ t[m].y24 = 0
              /\ \A i \in 1..Len(out.value.table) : out.value.table[i].market # m

(***************************************************************************)
(* Side effects of answer() (Spec)                                         *)
(***************************************************************************)
\* the series _handle_trend plots from the sales data: the 2024 monthly totals
Plotted(rows) ==
    [m \in 1..12 |-> Total(rows, {i \in DOMAIN rows : rows[i].date = MonthStart(12 + m)})]

\* what a call of answer() does to the chart file and to the chart_path it
\* returns: written and 'trend.png' for the intent trend, untouched and None
\* for the other intents
ChartRule ==
    LET intent == RouteIntent(question')
    IN  /\ intent = "trend" =>
              /\ result'.chart_path = "trend.png"
              /\ chartFile' = Plotted(GenerateFacts(rng).rows)
        /\ intent # "trend" =>
              /\ result'.chart_path = None
              /\ chartFile' = chartFile

\* the state answer() leaves the process-wide random source in
RandomStateRule ==
    LET generator == GeneratorOf(RouteIntent(question'))
    IN  rng' = IF generator = None THEN rng
               ELSE Advance(SeedRng, DrawsOf(generator))

C21_NoMarketNoCondition ==
    (out.op = "generate_sql_query" /\ Mentioned(Lower(question)) = {}) =>
        IndexOf(out.value.sql_query, "market IN (") = 0

\* the part of C21 that the four intents with the sentinel 'All markets
\* (US, UK, DE, IN, BR)' satisfy
C21_AllMarketsNoCondition ==
    (out.op = "generate_sql_query" /\ Mentioned(Lower(question)) = {}
        /\ out.value.intent # "occasions") =>
        IndexOf(out.value.sql_query, "market IN (") = 0

\* the labels of the channel filters and of the pack filters that the
\* question of the answer names
NamedFilters(word) ==
    {k \in FilterMatching(question) : Contains(filter_patterns[k].label, word)}

\* C22: the query answer() builds for a channel_pack question that names no
\* channel has no 'channel = ...' condition, and for one that names no pack
\* it has no 'pack = ...' condition.
C22_SentinelsDoNotRestrict ==
    (pc = "answered" /\ result.intent = "channel_pack") =>
        /\ NamedFilters("Channel") = {} => IndexOf(result.sql_query, "channel = '") = 0
        /\ NamedFilters("Pack") = {} => IndexOf(result.sql_query, "pack = '") = 0

(***************************************************************************)
(* The browser front end (SpecUi)                                          *)
(***************************************************************************)
\* C23: after any sequence of user actions selected_chat_index is None or
\* an index of the session history, 0 <= index < len(history).
C23_SelectedIndexValid ==
    ui.session = "open" =>
        \/ ui.selected_chat_index = NoIndex
        \/ /\ 0 <= ui.selected_chat_index.index
           /\ ui.selected_chat_index.index < Len(ui.history)

\* the first of two chats selected again after the second was added
C23_Witness ==
    /\ ui.session = "open"
    /\ Len(ui.history) = 2
    /\ ui.selected_chat_index = IndexAt(0)

\* the history of the next state is that of this state, or that with one
\* entry appended while the pinned list and the saved insights stay, or it is
\* emptied together with the pinned list and the saved insights
HistoryStep ==
    \/ ui'.history = ui.history
    \/ /\ Len(ui'.history) = Len(ui.history) + 1
       /\ SubSeq(ui'.history, 1, Len(ui.history)) = ui.history
       /\ ui'.pinned_questions = ui.pinned_questions
       /\ ui'.saved_insights = ui.saved_insights
    \/ /\ ui'.history = <<>>
       /\ ui'.pinned_questions = <<>>
       /\ ui'.saved_insights = <<>>

\* C24: the pinned list holds pairwise distinct questions, each the question
\* of some entry of the history; a step that changes the pinned list or the
\* saved insights leaves the history as it is, entries are only appended,
\* and the history loses entries only when it is emptied together with the
\* pinned list and the saved insights.
C24_PinnedAndHistory ==
    /\ [](ui.session = "open" =>
            /\ \A j, k \in 1..Len(ui.pinned_questions) :
                 j # k => ui.pinned_questions[j].question # ui.pinned_questions[k].question
            /\ \A k \in 1..Len(ui.pinned_questions) :
                 \E i \in 1..Len(ui.history) :
                     ui.history[i].question = ui.pinned_questions[k].question)
    /\ [][ui.session = "open" => HistoryStep]_vars

\* the same question asked twice and pinned, and an insight saved
C24_Witness ==
    /\ ui.session = "open"
    /\ Len(ui.history) = 2
    /\ ui.history[1].question = ui.history[2].question
    /\ Len(ui.pinned_questions) = 1
    /\ Len(ui.saved_insights) = 1

\* C25: when answer raises while a question is processed the history is
\* left unchanged, so at the start of every script run each entry of the
\* history carries an answer.
C25_EveryEntryAnswered ==
    ui.session = "open" =>
        \A i \in 1..Len(ui.history) : ui.history[i].answer # NoResult

\* the part of C25 that is about the quick questions: an entry added by one
\* carries an answer
C25_QuickQuestionsAnswered ==
    ui.session = "open" =>
        \A i \in 1..Len(ui.history) :
            ui.history[i].answer = NoResult => ui.history[i].question \in Prompts

====
